---- MODULE Spec2Model ----
(***************************************************************************)
(* Model of the AI Builder orchestration core:                             *)
(*   - TokenManager (models.py): the one-minute token budget               *)
(*   - run_agent_with_token_limit, stream_codegen_async,                   *)
(*     stream_codegen_with_continuation (functions.py): the streaming      *)
(*     invokers, run as coroutines of one asyncio event loop               *)
(* Time is in whole seconds.  A text is a sequence of one-token strings.   *)
(***************************************************************************)
EXTENDS Integers, Sequences, FiniteSets, TLC

\* ---------------------------------------------------------------- bounds
MaxClock == 100        \* no call starts and no clock tick happens after this
MaxOversleep == 1      \* time.sleep may return this many seconds late
MaxEvents == 2         \* events delivered by one stream
MaxCalls == 2          \* invoker calls started in one behaviour
MaxTextLen == 5        \* tokens of an enumerated argument of extract_partial_json

\* ------------------------------------------------------ program constants
max_tokens_per_minute == 8000
token_limit_threshold == 7500
WindowSeconds == 60

\* --------------------------------------------------------------- inputs
Requests == {"r1", "r2"}
\* clock advances between two steps of the event loop
TickSet == {20, 39}
\* estimated_response_tokens: 100 is passed by get_manager_decision, 9000
\* exceeds both the threshold and the capacity
EstSet == {100, 9000}
\* token counts the tokenizer can report for a non-empty text
TokSet == {3000, 6000}

ErrorPrefix == <<"Error: ">>
NoText == <<>>

Min(a, b) == IF a < b THEN a ELSE b

VARIABLES
  clock,         \* datetime.now()
  tokens_used,   \* token_manager.tokens_used
  start_time,    \* token_manager.start_time
  pc,            \* per request: position of its coroutine
  fn,            \* per request: the invoker it is running
  est,           \* per request: estimated_response_tokens of the running call
  input_tokens,  \* per request: local input_tokens
  full_output,   \* per request: local full_output
  cont_output,   \* per request: full_output of the continuation call
  nevents,       \* per request: events consumed from the open stream
  result,        \* per request: value returned by the last finished call
  wake_at,       \* per request: clock value at which its time.sleep is due
  call,          \* history of the running call: the branch check_and_wait
                 \* took, its sleeps, the model streams read to their end,
                 \* the add_tokens calls, the continuation calls, what failed
  committed,     \* history: tokens passed to add_tokens since the last reset
  calls,         \* history: number of calls started
  emitted,       \* per request, history: the text pieces of the events the
                 \* open stream has delivered, empty ones included
  forwarded      \* per request: the pieces the loop of the open stream has
                 \* printed, in order

invokerVars ==
  <<clock, tokens_used, start_time, pc, fn, est, input_tokens, full_output,
    cont_output, nevents, result, wake_at, call, committed, calls, emitted,
    forwarded>>

\* one call of extract_partial_json on its own
VARIABLES
  parser_pc,     \* "ready" before the call, "returned" after it
  partial_text,  \* the argument text
  partial_ret    \* the returned pair

parserVars == <<parser_pc, partial_text, partial_ret>>

\* get_manager_decision
VARIABLES
  decision       \* per request: what get_manager_decision returned or raised

routerVars == <<decision>>

\* one request on the error-resolution path (handle_error_resolution) or on
\* the code-change path (code_change_endpoint)
VARIABLES
  er_pc,          \* position of handle_error_resolution
  er_args,        \* its arguments user_input and code
  full_project,   \* local full_project
  finder_input,   \* local finder_input, sent to the finder agent
  affected_files, \* local affected_files
  error_type,     \* local error_type
  resolver_input, \* local resolver_input, sent to the resolver agent
  er_result,      \* what handle_error_resolution returned or raised
  original_files, \* project_context.original_files
  cc_pc,          \* position of code_change_endpoint
  stages          \* history: the stages of the path finished so far

resolveVars == <<er_pc, er_args, full_project, finder_input, affected_files,
                 error_type, resolver_input, er_result, original_files, cc_pc,
                 stages>>

\* one call of extract_text_from_event on its own
VARIABLES
  event_pc,      \* "ready" before the call, "returned" or "raised" after it
  event,         \* the argument event
  event_ret      \* the returned value

eventVars == <<event_pc, event, event_ret>>

\* the state outside the streaming invokers
toolVars == <<parserVars, routerVars, resolveVars, eventVars>>

vars == <<invokerVars, toolVars>>

NoCall == [path |-> "none", waits |-> 0, streams |-> 0, commits |-> 0,
           conts |-> 0, fail |-> "none"]
NoResult == [kind |-> "none", text |-> NoText]

\* ------------------------------------------------------------ TokenManager

\* TokenManager.count_tokens: the length of the tokenizer's encoding; the
\* tokenizer is an external capability, the empty text encodes to nothing
CountTokens(text) == IF Len(text) = 0 THEN {0} ELSE TokSet

\* mutant of CheckAndWait: the window is taken to expire after more than 60 s
CheckAndWaitStrict(used, start, now, e) ==
  LET elapsed_time == now - start IN
  IF elapsed_time > WindowSeconds
    THEN [used |-> 0, start |-> now, wait |-> 0]
    ELSE IF used + e >= token_limit_threshold
      THEN LET wait_time == WindowSeconds - elapsed_time IN
           IF wait_time > 0
             THEN [used |-> used, start |-> start, wait |-> wait_time]
             ELSE [used |-> used, start |-> start, wait |-> 0]
      ELSE [used |-> used, start |-> start, wait |-> 0]

\* mutant of CheckAndWait: the sleep lasts a full minute, not the remainder
CheckAndWaitFullMinute(used, start, now, e) ==
  LET elapsed_time == now - start IN
  IF elapsed_time >= WindowSeconds
    THEN [used |-> 0, start |-> now, wait |-> 0]
    ELSE IF used + e >= token_limit_threshold
      THEN [used |-> used, start |-> start, wait |-> WindowSeconds]
      ELSE [used |-> used, start |-> start, wait |-> 0]

\* TokenManager.check_and_wait up to the call of time.sleep: the new counter,
\* the new window start and the seconds to sleep (0: return without sleeping)
CheckAndWait(used, start, now, e) ==
  LET elapsed_time == now - start IN
  IF elapsed_time >= WindowSeconds
    THEN [used |-> 0, start |-> now, wait |-> 0]
    ELSE IF used + e >= token_limit_threshold
      THEN LET wait_time == WindowSeconds - elapsed_time IN
           IF wait_time > 0
             THEN [used |-> used, start |-> start, wait |-> wait_time]
             ELSE [used |-> used, start |-> start, wait |-> 0]
      ELSE [used |-> used, start |-> start, wait |-> 0]

\* mutant of AddTokens: the counter is not clamped
AddTokensNoClamp(used, tokens) == used + tokens

\* TokenManager.add_tokens
AddTokens(used, tokens) ==
  LET sum == used + tokens IN
  IF sum > max_tokens_per_minute THEN max_tokens_per_minute ELSE sum

\* mutant of LoopFree: the sleep suspends only the calling coroutine
LoopNeverBlocked == TRUE

\* time.sleep runs on the event loop's thread: while one coroutine sleeps no
\* other coroutine is resumed
LoopFree == \A q \in Requests : pc[q] # "sleeping"

\* mutant of AfterSleep: the check is repeated after the sleep
AfterSleepRecheck(e, waits) ==
  IF waits < 2 /\ e >= token_limit_threshold THEN "sleeping" ELSE "open"

\* check_and_wait has no loop: after the sleep it resets and returns
AfterSleep(e, waits) == "open"

\* -------------------------------------------------------------- JSON texts
\* A text is a sequence of tokens: the six structural characters, the
\* whitespace run " ", string literals, numbers and the three literals.

StrTokens ==
  {"\"files\"", "\"a\"", "\"b\"", "\"x\"", "\"y\"", "\"\"", "\"{\"",
   "\"task\"", "\"banana\"", "\"code_generation\"", "\"error_resolution\"",
   "\"code_change\"", "\"code_continuation\"",
   "\"project_name\"", "\"framework\"", "\"demo\"", "\"React\"", "\"unknown\"",
   "\"error-project\"", "\"affected_files\"", "\"error_type\"", "\"analysis\"",
   "\"runtime_error\"", "\"import_error\"", "\"No analysis provided\"",
   "\"App.jsx\"", "\"index.JS\"", "\"notes.xyz\"", "\"Makefile\"",
   "\"src/components/MessageBubble.jsx\"",
   "\"a*100\"", "\"a*100+p\"", "\"a*100+q\"", "\"fixed\""}
NumTokens == {"0", "1", "2"}
LitTokens == {"true", "false", "null"}
ScalarTokens == StrTokens \cup NumTokens \cup LitTokens
FilesKey == "\"files\""

\* decoded values: one record shape for every JSON type
JScalar(tok) ==
  [t |-> IF tok \in StrTokens THEN "str" ELSE IF tok \in NumTokens THEN "num" ELSE tok,
   s |-> tok, ks |-> <<>>, vs |-> <<>>]
JArr(vs) == [t |-> "arr", s |-> "", ks |-> <<>>, vs |-> vs]
JObj(ks, vs) == [t |-> "obj", s |-> "", ks |-> ks, vs |-> vs]
\* Python None: what json.loads gives for null
JNone == JScalar("null")

\* position of key k in the key list ks, 0 when absent
RECURSIVE KeyIndex(_, _, _)
KeyIndex(ks, k, i) ==
  IF i > Len(ks) THEN 0 ELSE IF ks[i] = k THEN i ELSE KeyIndex(ks, k, i + 1)

\* d[k] = v on a dict: a new key goes last, an existing key keeps its place
DictPut(d, k, v) ==
  LET i == KeyIndex(d.ks, k, 1) IN
  IF i = 0 THEN JObj(Append(d.ks, k), Append(d.vs, v))
           ELSE JObj(d.ks, [d.vs EXCEPT ![i] = v])

DictGet(d, k) == d.vs[KeyIndex(d.ks, k, 1)]

ParseFail == [ok |-> FALSE, v |-> JNone, next |-> 0]

\* json.loads on a text without whitespace, from position i: recursive descent
RECURSIVE ParseValue(_, _), ParseMembers(_, _, _), ParseElements(_, _, _)
ParseValue(ts, i) ==
  IF i > Len(ts) THEN ParseFail
  ELSE IF ts[i] \in ScalarTokens THEN [ok |-> TRUE, v |-> JScalar(ts[i]), next |-> i + 1]
  ELSE IF ts[i] = "{" THEN
    IF i + 1 <= Len(ts) /\ ts[i + 1] = "}"
      THEN [ok |-> TRUE, v |-> JObj(<<>>, <<>>), next |-> i + 2]
      ELSE ParseMembers(ts, i + 1, JObj(<<>>, <<>>))
  ELSE IF ts[i] = "[" THEN
    IF i + 1 <= Len(ts) /\ ts[i + 1] = "]"
      THEN [ok |-> TRUE, v |-> JArr(<<>>), next |-> i + 2]
      ELSE ParseElements(ts, i + 1, <<>>)
  ELSE ParseFail

ParseMembers(ts, i, d) ==
  IF i + 1 > Len(ts) \/ ts[i] \notin StrTokens THEN ParseFail
  ELSE IF ts[i + 1] # ":" THEN ParseFail
  ELSE LET r == ParseValue(ts, i + 2) IN
    IF ~r.ok \/ r.next > Len(ts) THEN ParseFail
    ELSE IF ts[r.next] = "}"
      THEN [ok |-> TRUE, v |-> DictPut(d, ts[i], r.v), next |-> r.next + 1]
    ELSE IF ts[r.next] = ","
      THEN ParseMembers(ts, r.next + 1, DictPut(d, ts[i], r.v))
    ELSE ParseFail

ParseElements(ts, i, vs) ==
  LET r == ParseValue(ts, i) IN
  IF ~r.ok \/ r.next > Len(ts) THEN ParseFail
  ELSE IF ts[r.next] = "]"
    THEN [ok |-> TRUE, v |-> JArr(Append(vs, r.v)), next |-> r.next + 1]
  ELSE IF ts[r.next] = ","
    THEN ParseElements(ts, r.next + 1, Append(vs, r.v))
  ELSE ParseFail

IsWs(tok) == tok = " "
DropWs(text) == SelectSeq(text, LAMBDA tok : ~IsWs(tok))

\* json.loads(text): whitespace between tokens is skipped, the whole text must
\* be one value; ok = FALSE stands for json.JSONDecodeError
Loads(text) ==
  LET ts == DropWs(text)
      r == ParseValue(ts, 1)
  IN IF r.ok /\ r.next = Len(ts) + 1 THEN [ok |-> TRUE, v |-> r.v]
                                      ELSE [ok |-> FALSE, v |-> JNone]

\* str.strip()
RECURSIVE LStrip(_), RStrip(_)
LStrip(text) ==
  IF Len(text) > 0 /\ IsWs(Head(text)) THEN LStrip(Tail(text)) ELSE text
RStrip(text) ==
  IF Len(text) > 0 /\ IsWs(text[Len(text)])
    THEN RStrip(SubSeq(text, 1, Len(text) - 1)) ELSE text
Strip(text) == RStrip(LStrip(text))

\* occurrences of the character ch in one token; the string literal "{"
\* holds a brace
CharsIn(tok, ch) ==
  IF tok = ch THEN 1 ELSE IF tok = "\"{\"" /\ ch = "{" THEN 1 ELSE 0

\* str.count(ch)
RECURSIVE CountChar(_, _)
CountChar(text, ch) ==
  IF Len(text) = 0 THEN 0 ELSE CharsIn(Head(text), ch) + CountChar(Tail(text), ch)

\* "for _ in range(n): text += ch" (nothing for n <= 0)
RECURSIVE Closers(_, _)
Closers(ch, n) == IF n <= 0 THEN <<>> ELSE <<ch>> \o Closers(ch, n - 1)

\* mutant of RepairText: the braces are closed before the brackets
RepairTextBracesFirst(text0) ==
  LET text1 == Strip(text0)
      text2 == IF Len(text1) > 0 /\ text1[Len(text1)] = ","
                 THEN SubSeq(text1, 1, Len(text1) - 1) ELSE text1
      open_braces == CountChar(text2, "{") - CountChar(text2, "}")
      open_brackets == CountChar(text2, "[") - CountChar(text2, "]")
  IN text2 \o Closers("}", open_braces) \o Closers("]", open_brackets)

\* the text extract_partial_json parses after its repair
RepairText(text0) ==
  LET text1 == Strip(text0)
      text2 == IF Len(text1) > 0 /\ text1[Len(text1)] = ","
                 THEN SubSeq(text1, 1, Len(text1) - 1) ELSE text1
      open_braces == CountChar(text2, "{") - CountChar(text2, "}")
      open_brackets == CountChar(text2, "[") - CountChar(text2, "]")
  IN text2 \o Closers("]", open_brackets) \o Closers("}", open_braces)

\* mutant of ExtractPartialJson: a repaired text is reported as complete
ExtractPartialJsonFlagsRepaired(text) ==
  LET a == Loads(text)
      b == Loads(RepairText(text))
  IN IF a.ok THEN [v |-> a.v, complete |-> TRUE, parsed |-> TRUE]
     ELSE IF b.ok THEN [v |-> b.v, complete |-> TRUE, parsed |-> TRUE]
     ELSE [v |-> JNone, complete |-> FALSE, parsed |-> FALSE]

\* extract_partial_json: v and complete are the returned pair; parsed tells
\* whether one of the two json.loads calls succeeded
ExtractPartialJson(text) ==
  LET a == Loads(text) IN
  IF a.ok THEN [v |-> a.v, complete |-> TRUE, parsed |-> TRUE]
  ELSE LET b == Loads(RepairText(text)) IN
       IF b.ok THEN [v |-> b.v, complete |-> FALSE, parsed |-> TRUE]
               ELSE [v |-> JNone, complete |-> FALSE, parsed |-> FALSE]

\* the keys of a dict
Keys(d) == {d.ks[i] : i \in 1..Len(d.ks)}

\* '"files" in v and isinstance(v["files"], dict)' for a dict v
HasFileSet(v) ==
  /\ v.t = "obj"
  /\ KeyIndex(v.ks, FilesKey, 1) > 0
  /\ DictGet(v, FilesKey).t = "obj"

\* Python truth value of a decoded value ("if partial_json")
Truthy(v) ==
  ~ \/ v.t \in {"null", "false"}
    \/ (v.t = "num" /\ v.s = "0")
    \/ (v.t = "str" /\ v.s = "\"\"")
    \/ (v.t = "arr" /\ v.vs = <<>>)
    \/ (v.t = "obj" /\ v.ks = <<>>)

\* '"files" in v': key of a dict, element of a list, substring of a string;
\* "raise" stands for the TypeError on a number or a boolean
HasFiles(v) ==
  IF v.t = "obj" THEN IF KeyIndex(v.ks, FilesKey, 1) > 0 THEN "yes" ELSE "no"
  ELSE IF v.t = "arr"
    THEN IF \E i \in 1..Len(v.vs) : v.vs[i] = JScalar(FilesKey) THEN "yes" ELSE "no"
  ELSE IF v.t = "str" THEN IF v.s = FilesKey THEN "yes" ELSE "no"
  ELSE "raise"

\* mutant of UpdateFrom: a key the target already has keeps its value
RECURSIVE UpdateFromKeepOriginal(_, _, _)
UpdateFromKeepOriginal(d, src, i) ==
  IF src.t # "obj" THEN [ok |-> FALSE, v |-> d]
  ELSE IF i > Len(src.ks) THEN [ok |-> TRUE, v |-> d]
  ELSE UpdateFromKeepOriginal(
         IF KeyIndex(d.ks, src.ks[i], 1) > 0 THEN d
           ELSE DictPut(d, src.ks[i], src.vs[i]),
         src, i + 1)

\* target.update(src) for a dict target: src a dict, or an iterable of pairs.
\* An element of a list is a pair when it is a two-element list or a dict of
\* two keys (its keys are the pair); an empty list or string adds nothing;
\* a number, a literal or a string of the model's alphabet is no pair and
\* raises.  Pairs whose key is not a string are outside the modelled texts
\* and are taken to raise.
RECURSIVE UpdateFrom(_, _, _)
UpdateFrom(d, src, i) ==
  IF src.t = "obj"
    THEN IF i > Len(src.ks) THEN [ok |-> TRUE, v |-> d]
         ELSE UpdateFrom(DictPut(d, src.ks[i], src.vs[i]), src, i + 1)
  ELSE IF src.t = "arr"
    THEN IF i > Len(src.vs) THEN [ok |-> TRUE, v |-> d]
         ELSE IF /\ src.vs[i].t = "arr" /\ Len(src.vs[i].vs) = 2
                 /\ src.vs[i].vs[1].t = "str"
           THEN UpdateFrom(DictPut(d, src.vs[i].vs[1].s, src.vs[i].vs[2]), src, i + 1)
         ELSE IF src.vs[i].t = "obj" /\ Len(src.vs[i].ks) = 2
           THEN UpdateFrom(DictPut(d, src.vs[i].ks[1], JScalar(src.vs[i].ks[2])),
                           src, i + 1)
           ELSE [ok |-> FALSE, v |-> d]
  ELSE IF src.t = "str" /\ src.s = "\"\"" THEN [ok |-> TRUE, v |-> d]
  ELSE [ok |-> FALSE, v |-> d]

\* json.dumps(v, indent=2): members and elements on lines of their own, ": "
\* after a key, "{}" and "[]" for the empty containers
RECURSIVE Dumps(_), DumpMembers(_, _), DumpElements(_, _)
Dumps(v) ==
  IF v.t = "obj"
    THEN IF v.ks = <<>> THEN <<"{", "}">>
         ELSE <<"{", " ">> \o DumpMembers(v, 1) \o <<" ", "}">>
  ELSE IF v.t = "arr"
    THEN IF v.vs = <<>> THEN <<"[", "]">>
         ELSE <<"[", " ">> \o DumpElements(v, 1) \o <<" ", "]">>
  ELSE <<v.s>>
DumpMembers(v, i) ==
  <<v.ks[i], ":", " ">> \o Dumps(v.vs[i])
    \o (IF i < Len(v.ks) THEN <<",", " ">> \o DumpMembers(v, i + 1) ELSE <<>>)
DumpElements(v, i) ==
  Dumps(v.vs[i])
    \o (IF i < Len(v.vs) THEN <<",", " ">> \o DumpElements(v, i + 1) ELSE <<>>)

\* lines 322-332: the text stream_codegen_with_continuation returns after the
\* continuation; every exception of the merge leaves full_output as it was
MergeOutputs(full, partial_json, continuation_output) ==
  LET continuation_json == ExtractPartialJson(continuation_output).v IN
  IF ~Truthy(continuation_json) \/ HasFiles(continuation_json) # "yes" THEN full
  ELSE IF ~Truthy(partial_json) \/ HasFiles(partial_json) = "no"
    THEN Dumps(partial_json)
  ELSE IF HasFiles(partial_json) = "raise" \/ partial_json.t # "obj" THEN full
  ELSE IF DictGet(partial_json, FilesKey).t # "obj" THEN full
  ELSE IF continuation_json.t # "obj" THEN full
  ELSE LET u == UpdateFrom(DictGet(partial_json, FilesKey),
                           DictGet(continuation_json, FilesKey), 1) IN
       IF u.ok THEN Dumps(DictPut(partial_json, FilesKey, u.v)) ELSE full

\* whether the merge raised (the inner except clause ran)
MergeRaises(partial_json, continuation_output) ==
  LET continuation_json == ExtractPartialJson(continuation_output).v IN
  /\ Truthy(continuation_json)
  /\ \/ HasFiles(continuation_json) = "raise"
     \/ /\ HasFiles(continuation_json) = "yes"
        /\ Truthy(partial_json)
        /\ \/ HasFiles(partial_json) = "raise"
           \/ /\ HasFiles(partial_json) = "yes"
              /\ \/ partial_json.t # "obj"
                 \/ DictGet(partial_json, FilesKey).t # "obj"
                 \/ continuation_json.t # "obj"
                 \/ ~UpdateFrom(DictGet(partial_json, FilesKey),
                                DictGet(continuation_json, FilesKey), 1).ok

\* ------------------------------------------------------- the model backend

\* text fragments carried by the stream events of the concurrent requests;
\* the empty one is an event without text
Fragments == {<<>>, <<"{">>}
\* text fragments of the generation streams: an object with a file set cut
\* short, its closing braces, a lone opening brace or bracket, a list
\* holding "files", a whole object with a file set, a dangling comma, a
\* number, an object without a file set cut short
GenFragments ==
  { <<>>,
    <<"{", "\"a\"", ":", "1">>,
    <<"{", "\"files\"", ":", "{", "\"a\"", ":", "\"x\"">>,
    <<"}", "}">>,
    <<"{">>,
    <<"[">>,
    <<"[", "\"files\"">>,
    <<"{", "\"files\"", ":", "{", "\"b\"", ":", "\"y\"", ",", "\"a\"", ":", "1", "}", "}">>,
    <<",">>,
    <<"1">> }
\* str(e) of a stream failure
ErrorMessages == {<<"timeout">>}
\* token counts of the input_data of a call
InTokSet == {0, 1000}

ErrorText(msg) == ErrorPrefix \o msg

\* mutant of FailureResult: the exception leaves the function
FailurePropagates(msg) == [kind |-> "raised", text |-> msg]

\* "except Exception as e: return f'Error: {str(e)}'" of the three invokers
FailureResult(msg) == [kind |-> "str", text |-> ErrorText(msg)]

\* ------------------------------------------------------------------ Init
\* no call of extract_partial_json on its own
ParserIdle ==
  /\ parser_pc = "ready"
  /\ partial_text = NoText
  /\ partial_ret = [v |-> JNone, complete |-> FALSE, parsed |-> FALSE]

\* module load: a fresh TokenManager, no request running
InvokerInit ==
  /\ clock = 0
  /\ tokens_used = 0
  /\ start_time = 0
  /\ pc = [r \in Requests |-> "idle"]
  /\ fn = [r \in Requests |-> "none"]
  /\ est = [r \in Requests |-> 0]
  /\ input_tokens = [r \in Requests |-> 0]
  /\ full_output = [r \in Requests |-> NoText]
  /\ cont_output = [r \in Requests |-> NoText]
  /\ nevents = [r \in Requests |-> 0]
  /\ result = [r \in Requests |-> NoResult]
  /\ wake_at = [r \in Requests |-> 0]
  /\ call = [r \in Requests |-> NoCall]
  /\ committed = 0
  /\ calls = 0
  /\ emitted = [r \in Requests |-> <<>>]
  /\ forwarded = [r \in Requests |-> <<>>]

\* no call of get_manager_decision has ended
NoDecision == [kind |-> "none", task |-> JNone]
RouterIdle == decision = [r \in Requests |-> NoDecision]

\* the structure of an empty dict: what create_structure_only gives for {}
EmptyStructure ==
  [raw |-> FALSE, value |-> JNone, project_name |-> JScalar("\"unknown\""),
   framework |-> JScalar("\"React\""), files |-> <<>>]
NoFinderInput == [error_description |-> "", project_structure |-> EmptyStructure]
NoResolverInput ==
  [error_description |-> "", file_name |-> JNone,
   affected_files |-> JObj(<<>>, <<>>), error_type |-> JNone]
NoErResult == [kind |-> "none", value |-> JNone, text |-> NoText]
NoArgs == [user_input |-> "", code |-> [kind |-> "other", text |-> NoText, value |-> JNone]]

\* the locals of a handle_error_resolution that has not started; a fresh
\* ProjectContext (models.py line 108)
ResolveLocalsInit ==
  /\ er_pc = "idle"
  /\ full_project = JNone
  /\ finder_input = NoFinderInput
  /\ affected_files = JNone
  /\ error_type = JNone
  /\ resolver_input = NoResolverInput
  /\ er_result = NoErResult
  /\ original_files = JObj(<<>>, <<>>)
  /\ cc_pc = "idle"
  /\ stages = <<>>

\* no request on the error-resolution or code-change path
ResolveIdle == ResolveLocalsInit /\ er_args = NoArgs

\* an attribute or key the event does not have, and a property whose read
\* raises
Absent == [t |-> "absent", s |-> "", ks |-> <<>>, vs |-> <<>>]
Raises == [t |-> "raises", s |-> "", ks |-> <<>>, vs |-> <<>>]

\* no call of extract_text_from_event on its own
IdleEvent ==
  [shape |-> "other", data |-> "absent", data_delta |-> Absent, delta |-> Absent,
   text |-> Absent, content |-> Absent, value |-> JNone]
EventIdle == event_pc = "ready" /\ event = IdleEvent /\ event_ret = JNone

Init == InvokerInit /\ ParserIdle /\ RouterIdle /\ ResolveIdle /\ EventIdle

\* ------------------------------------------------- the three stream loops

\* no event is consumed in this step
NoEvent == UNCHANGED <<emitted, forwarded>>

\* the stream of request r is over: its history is dropped
StreamClosed(r) ==
  /\ emitted' = [emitted EXCEPT ![r] = <<>>]
  /\ forwarded' = [forwarded EXCEPT ![r] = <<>>]

\* lines 296-299, 354-357, 386-389: text_piece is what
\* extract_text_from_event gave for the event; a non-empty one is printed
Forward(r, text_piece) ==
  /\ emitted' = [emitted EXCEPT ![r] = Append(@, text_piece)]
  /\ forwarded' = [forwarded EXCEPT ![r] =
                     IF text_piece # NoText THEN Append(@, text_piece) ELSE @]

\* Runner.run_streamed(agent, input=...) and full_output = "": the stream is
\* open, or the call raised and the except clause returns the marker
OpenStream(r, msg, ok) ==
  IF ok
    THEN /\ pc' = [pc EXCEPT ![r] = "stream"]
         /\ result' = [result EXCEPT ![r] = NoResult]
    ELSE /\ pc' = [pc EXCEPT ![r] = "done"]
         /\ result' = [result EXCEPT ![r] = FailureResult(msg)]

\* mutant of StreamEvent: the piece is put in front of the accumulated text
StreamEventNewestFirst(r, F) ==
  /\ LoopFree
  /\ pc[r] = "stream"
  /\ nevents[r] < MaxEvents
  /\ \E text_piece \in F :
       /\ full_output' = [full_output EXCEPT ![r] =
                            IF text_piece # NoText THEN text_piece \o @ ELSE @]
       /\ Forward(r, text_piece)
  /\ nevents' = [nevents EXCEPT ![r] = @ + 1]
  /\ UNCHANGED <<clock, tokens_used, start_time, pc, fn, est, input_tokens,
                 cont_output, result, wake_at, call, committed, calls>>
  /\ UNCHANGED toolVars

\* one iteration of "async for event in stream_result.stream_events()" with
\* the fragment of the event taken from F
StreamEvent(r, F) ==
  /\ LoopFree
  /\ pc[r] = "stream"
  /\ nevents[r] < MaxEvents
  /\ \E text_piece \in F :
       /\ full_output' = [full_output EXCEPT ![r] =
                            IF text_piece # NoText THEN @ \o text_piece ELSE @]
       /\ Forward(r, text_piece)
  /\ nevents' = [nevents EXCEPT ![r] = @ + 1]
  /\ UNCHANGED <<clock, tokens_used, start_time, pc, fn, est, input_tokens,
                 cont_output, result, wake_at, call, committed, calls>>
  /\ UNCHANGED toolVars

\* mutant of StreamFail: the tokens of the input are added when the stream
\* raises
StreamFailCommits(r) ==
  /\ LoopFree
  /\ pc[r] = "stream"
  /\ \E msg \in ErrorMessages : result' = [result EXCEPT ![r] = FailureResult(msg)]
  /\ pc' = [pc EXCEPT ![r] = "done"]
  /\ call' = [call EXCEPT ![r].fail = "primary", ![r].commits = @ + 1]
  /\ tokens_used' = AddTokens(tokens_used, input_tokens[r])
  /\ committed' = committed + input_tokens[r]
  /\ UNCHANGED <<clock, start_time, fn, est, input_tokens,
                 full_output, cont_output, nevents, wake_at, calls>>
  /\ StreamClosed(r)
  /\ UNCHANGED toolVars

\* the stream raised while being consumed: the except clause of the invoker
StreamFail(r) ==
  /\ LoopFree
  /\ pc[r] = "stream"
  /\ \E msg \in ErrorMessages : result' = [result EXCEPT ![r] = FailureResult(msg)]
  /\ pc' = [pc EXCEPT ![r] = "done"]
  /\ call' = [call EXCEPT ![r].fail = "primary"]
  /\ UNCHANGED <<clock, tokens_used, start_time, fn, est, input_tokens,
                 full_output, cont_output, nevents, wake_at, committed, calls>>
  /\ StreamClosed(r)
  /\ UNCHANGED toolVars

\* ------------------------------------------- run_agent_with_token_limit

\* lines 374-382: count the input, check_and_wait, open the stream; when
\* check_and_wait sleeps the step ends inside time.sleep.  E holds the
\* values the caller may pass as estimated_response_tokens
RunAgentStart(r, E) ==
  /\ LoopFree
  /\ pc[r] = "idle"
  /\ calls < MaxCalls
  /\ clock <= MaxClock
  /\ \E e \in E, n \in InTokSet, ok \in BOOLEAN, msg \in ErrorMessages :
       LET cw == CheckAndWait(tokens_used, start_time, clock, e) IN
       /\ est' = [est EXCEPT ![r] = e]
       /\ input_tokens' = [input_tokens EXCEPT ![r] = n]
       /\ tokens_used' = cw.used
       /\ start_time' = cw.start
       /\ committed' = IF cw.start # start_time THEN 0 ELSE committed
       /\ call' = [call EXCEPT ![r] =
                     [NoCall EXCEPT
                        !.path = IF cw.start # start_time THEN "reset"
                                 ELSE IF cw.wait > 0 THEN "wait" ELSE "pass",
                        !.waits = IF cw.wait > 0 THEN 1 ELSE 0,
                        !.fail = IF cw.wait = 0 /\ ~ok THEN "primary" ELSE "none"]]
       /\ IF cw.wait > 0
            THEN /\ pc' = [pc EXCEPT ![r] = "sleeping"]
                 /\ wake_at' = [wake_at EXCEPT ![r] = clock + cw.wait]
                 /\ result' = [result EXCEPT ![r] = NoResult]
            ELSE /\ OpenStream(r, msg, ok)
                 /\ UNCHANGED wake_at
  /\ fn' = [fn EXCEPT ![r] = "run_agent"]
  /\ calls' = calls + 1
  /\ UNCHANGED <<clock, full_output, cont_output, nevents>>
  /\ NoEvent
  /\ UNCHANGED toolVars

\* mutant of Wake: the counter is not reset when the sleep is over
WakeKeepsCount(r) ==
  /\ pc[r] = "sleeping"
  /\ \E over \in 0..MaxOversleep, ok \in BOOLEAN, msg \in ErrorMessages :
       /\ clock' = wake_at[r] + over
       /\ tokens_used' = tokens_used
       /\ start_time' = clock'
       /\ committed' = 0
       /\ IF AfterSleep(est[r], call[r].waits) = "sleeping"
            THEN /\ pc' = pc
                 /\ wake_at' = [wake_at EXCEPT ![r] = clock' + WindowSeconds]
                 /\ call' = [call EXCEPT ![r].waits = @ + 1]
                 /\ UNCHANGED result
            ELSE /\ OpenStream(r, msg, ok)
                 /\ wake_at' = [wake_at EXCEPT ![r] = 0]
                 /\ call' = [call EXCEPT ![r].fail = IF ok THEN "none" ELSE "primary"]
  /\ UNCHANGED <<fn, est, input_tokens, full_output, cont_output, nevents, calls>>
  /\ NoEvent
  /\ UNCHANGED toolVars

\* models.py lines 70-73 and functions.py lines 377-382: time.sleep returns
\* (on time or late), the window is reset, and the stream is opened
Wake(r) ==
  /\ pc[r] = "sleeping"
  /\ \E over \in 0..MaxOversleep, ok \in BOOLEAN, msg \in ErrorMessages :
       /\ clock' = wake_at[r] + over
       /\ tokens_used' = 0
       /\ start_time' = clock'
       /\ committed' = 0
       /\ IF AfterSleep(est[r], call[r].waits) = "sleeping"
            THEN /\ pc' = pc
                 /\ wake_at' = [wake_at EXCEPT ![r] = clock' + WindowSeconds]
                 /\ call' = [call EXCEPT ![r].waits = @ + 1]
                 /\ UNCHANGED result
            ELSE /\ OpenStream(r, msg, ok)
                 /\ wake_at' = [wake_at EXCEPT ![r] = 0]
                 /\ call' = [call EXCEPT ![r].fail = IF ok THEN "none" ELSE "primary"]
  /\ UNCHANGED <<fn, est, input_tokens, full_output, cont_output, nevents, calls>>
  /\ NoEvent
  /\ UNCHANGED toolVars

\* lines 391-403: the stream ended; count the output, add_tokens, return the
\* wrapper
RunAgentEnd(r) ==
  /\ LoopFree
  /\ pc[r] = "stream"
  /\ fn[r] = "run_agent"
  /\ \E output_tokens \in CountTokens(full_output[r]) :
       LET total_tokens == input_tokens[r] + output_tokens IN
       /\ tokens_used' = AddTokens(tokens_used, total_tokens)
       /\ committed' = committed + total_tokens
  /\ pc' = [pc EXCEPT ![r] = "done"]
  /\ result' = [result EXCEPT ![r] = [kind |-> "wrapper", text |-> full_output[r]]]
  /\ call' = [call EXCEPT ![r].streams = @ + 1, ![r].commits = @ + 1]
  /\ UNCHANGED <<clock, start_time, fn, est, input_tokens, full_output,
                 cont_output, nevents, wake_at, calls>>
  /\ StreamClosed(r)
  /\ UNCHANGED toolVars

\* the caller takes the returned value; the coroutine's locals are gone
Return(r) ==
  /\ LoopFree
  /\ pc[r] = "done"
  /\ pc' = [pc EXCEPT ![r] = "idle"]
  /\ fn' = [fn EXCEPT ![r] = "none"]
  /\ est' = [est EXCEPT ![r] = 0]
  /\ input_tokens' = [input_tokens EXCEPT ![r] = 0]
  /\ full_output' = [full_output EXCEPT ![r] = NoText]
  /\ cont_output' = [cont_output EXCEPT ![r] = NoText]
  /\ nevents' = [nevents EXCEPT ![r] = 0]
  /\ result' = [result EXCEPT ![r] = NoResult]
  /\ call' = [call EXCEPT ![r] = NoCall]
  /\ UNCHANGED <<clock, tokens_used, start_time, wake_at, committed, calls>>
  /\ NoEvent
  /\ UNCHANGED toolVars

\* time passes between two steps of the event loop
Tick ==
  /\ LoopFree
  /\ \E d \in TickSet :
       /\ clock + d <= MaxClock
       /\ clock' = clock + d
  /\ UNCHANGED <<tokens_used, start_time, pc, fn, est, input_tokens, full_output,
                 cont_output, nevents, result, wake_at, call, committed, calls>>
  /\ NoEvent
  /\ UNCHANGED toolVars

\* --------------------------------------------------- stream_codegen_async

\* the budget and the clock are not touched by the two codegen invokers
BudgetUnchanged == UNCHANGED <<clock, tokens_used, start_time, committed, wake_at>>

\* the invoker f opens its stream without a check_and_wait
CodegenOpen(r, f) ==
  /\ \E ok \in BOOLEAN, msg \in ErrorMessages :
       /\ OpenStream(r, msg, ok)
       /\ call' = [call EXCEPT ![r] =
                     [NoCall EXCEPT !.fail = IF ok THEN "none" ELSE "primary"]]
  /\ fn' = [fn EXCEPT ![r] = f]
  /\ calls' = calls + 1
  /\ BudgetUnchanged
  /\ UNCHANGED <<est, input_tokens, full_output, cont_output, nevents>>
  /\ NoEvent
  /\ UNCHANGED toolVars

\* lines 348-350: stream_codegen_async opens its stream
CodegenAsyncStart(r) ==
  /\ LoopFree
  /\ pc[r] = "idle"
  /\ calls < MaxCalls
  /\ CodegenOpen(r, "codegen_async")

\* lines 359-361: the stream ended, the accumulated text is returned
CodegenAsyncEnd(r) ==
  /\ LoopFree
  /\ pc[r] = "stream"
  /\ fn[r] = "codegen_async"
  /\ pc' = [pc EXCEPT ![r] = "done"]
  /\ result' = [result EXCEPT ![r] = [kind |-> "str", text |-> full_output[r]]]
  /\ call' = [call EXCEPT ![r].streams = @ + 1]
  /\ BudgetUnchanged
  /\ UNCHANGED <<fn, est, input_tokens, full_output, cont_output, nevents, calls>>
  /\ StreamClosed(r)
  /\ UNCHANGED toolVars

\* --------------------------------------- stream_codegen_with_continuation

\* lines 288-292: stream_codegen_with_continuation opens its stream
CodegenStart(r) ==
  /\ LoopFree
  /\ pc[r] = "idle"
  /\ calls < MaxCalls
  /\ CodegenOpen(r, "codegen_with_continuation")

\* mutant of FinishContinuation: a continuation whose own output is not
\* complete JSON is followed by another continuation
FinishContinuationAgain(r, continuation_output, failed, ended) ==
  LET partial_json == ExtractPartialJson(full_output[r]).v
      again == ~failed /\ ~ExtractPartialJson(continuation_output).complete
                 /\ call[r].conts < 3
  IN
  /\ pc' = [pc EXCEPT ![r] = IF again THEN "continuation" ELSE "done"]
  /\ result' = [result EXCEPT ![r] =
                  IF again THEN @
                  ELSE [kind |-> "str",
                        text |-> MergeOutputs(full_output[r], partial_json,
                                              continuation_output)]]
  /\ cont_output' = [cont_output EXCEPT ![r] = continuation_output]
  /\ call' = [call EXCEPT
                ![r].streams = @ + ended,
                ![r].conts = @ + (IF pc[r] = "stream" THEN 1 ELSE 0)
                               + (IF again THEN 1 ELSE 0),
                ![r].fail = IF failed THEN "continuation" ELSE "none"]

\* lines 320-337: the continuation returned continuation_output (its text or
\* its error marker); merge and return full_output.  ended is the number of
\* streams read to their end in this step
FinishContinuation(r, continuation_output, failed, ended) ==
  LET partial_json == ExtractPartialJson(full_output[r]).v IN
  /\ pc' = [pc EXCEPT ![r] = "done"]
  /\ result' = [result EXCEPT ![r] =
                  [kind |-> "str",
                   text |-> MergeOutputs(full_output[r], partial_json,
                                         continuation_output)]]
  /\ cont_output' = [cont_output EXCEPT ![r] = continuation_output]
  /\ call' = [call EXCEPT
                ![r].streams = @ + ended,
                ![r].conts = IF pc[r] = "stream" THEN @ + 1 ELSE @,
                ![r].fail = IF failed THEN "continuation"
                            ELSE IF MergeRaises(partial_json, continuation_output)
                              THEN "merge" ELSE "none"]

\* lines 301-337: the primary stream ended.  Complete JSON, or no truthy
\* repaired value: return the text.  Otherwise call stream_codegen_async on
\* the continuation agent, which opens its stream or returns its marker
CodegenEnd(r) ==
  /\ LoopFree
  /\ pc[r] = "stream"
  /\ fn[r] = "codegen_with_continuation"
  /\ LET e == ExtractPartialJson(full_output[r]) IN
     IF ~e.complete /\ Truthy(e.v)
       THEN \E ok \in BOOLEAN, msg \in ErrorMessages :
              IF ok
                THEN /\ pc' = [pc EXCEPT ![r] = "continuation"]
                     /\ call' = [call EXCEPT ![r].streams = @ + 1, ![r].conts = @ + 1]
                     /\ nevents' = [nevents EXCEPT ![r] = 0]
                     /\ UNCHANGED <<result, cont_output>>
                ELSE /\ FinishContinuation(r, ErrorText(msg), TRUE, 1)
                     /\ UNCHANGED nevents
       ELSE /\ pc' = [pc EXCEPT ![r] = "done"]
            /\ result' = [result EXCEPT ![r] = [kind |-> "str", text |-> full_output[r]]]
            /\ call' = [call EXCEPT ![r].streams = @ + 1]
            /\ UNCHANGED <<nevents, cont_output>>
  /\ BudgetUnchanged
  /\ UNCHANGED <<fn, est, input_tokens, full_output, calls>>
  /\ StreamClosed(r)
  /\ UNCHANGED toolVars

\* mutant of ContinuationEvent: the continuation stream delivers events
\* while the primary stream is still read
ContinuationEventEarly(r, F) ==
  /\ LoopFree
  /\ pc[r] \in {"stream", "continuation"}
  /\ fn[r] = "codegen_with_continuation"
  /\ nevents[r] < MaxEvents
  /\ \E text_piece \in F :
       /\ cont_output' = [cont_output EXCEPT ![r] =
                            IF text_piece # NoText THEN @ \o text_piece ELSE @]
       /\ IF pc[r] = "continuation" THEN Forward(r, text_piece) ELSE NoEvent
  /\ nevents' = [nevents EXCEPT ![r] = IF pc[r] = "continuation" THEN @ + 1 ELSE @]
  /\ BudgetUnchanged
  /\ UNCHANGED <<pc, fn, est, input_tokens, full_output, result, call, calls>>
  /\ UNCHANGED toolVars

\* lines 352-357 run for the continuation agent: one event of its stream
ContinuationEvent(r, F) ==
  /\ LoopFree
  /\ pc[r] = "continuation"
  /\ nevents[r] < MaxEvents
  /\ \E text_piece \in F :
       /\ cont_output' = [cont_output EXCEPT ![r] =
                            IF text_piece # NoText THEN @ \o text_piece ELSE @]
       /\ Forward(r, text_piece)
  /\ nevents' = [nevents EXCEPT ![r] = @ + 1]
  /\ BudgetUnchanged
  /\ UNCHANGED <<pc, fn, est, input_tokens, full_output, result, call, calls>>
  /\ UNCHANGED toolVars

\* the continuation stream ended: stream_codegen_async returns its text
ContinuationEnd(r) ==
  /\ LoopFree
  /\ pc[r] = "continuation"
  /\ FinishContinuation(r, cont_output[r], FALSE, 1)
  /\ BudgetUnchanged
  /\ UNCHANGED <<fn, est, input_tokens, full_output, nevents, calls>>
  /\ StreamClosed(r)
  /\ UNCHANGED toolVars

\* the continuation stream raised: stream_codegen_async returns its marker
ContinuationFail(r) ==
  /\ LoopFree
  /\ pc[r] = "continuation"
  /\ \E msg \in ErrorMessages : FinishContinuation(r, ErrorText(msg), TRUE, 0)
  /\ BudgetUnchanged
  /\ UNCHANGED <<fn, est, input_tokens, full_output, nevents, calls>>
  /\ StreamClosed(r)
  /\ UNCHANGED toolVars

\* ------------------------------------------------------- specifications

\* concurrent requests calling run_agent_with_token_limit while time passes
Next ==
  \/ \E r \in Requests : RunAgentStart(r, EstSet)
  \/ \E r \in Requests : Wake(r)
  \/ \E r \in Requests : StreamEvent(r, Fragments)
  \/ \E r \in Requests : RunAgentEnd(r)
  \/ \E r \in Requests : StreamFail(r)
  \/ \E r \in Requests : Return(r)
  \/ Tick

Spec == Init /\ [][Next]_vars

\* time.sleep returns once the requested time has passed
LiveSpec == Spec /\ \A r \in Requests : WF_vars(Wake(r))

\* one call of one of the three invokers by one request, with the generation
\* fragments; time passes only inside time.sleep
GenRequest == "r1"

NextGen ==
  \/ RunAgentStart(GenRequest, EstSet)
  \/ Wake(GenRequest)
  \/ StreamEvent(GenRequest, GenFragments)
  \/ StreamFail(GenRequest)
  \/ RunAgentEnd(GenRequest)
  \/ CodegenAsyncStart(GenRequest)
  \/ CodegenAsyncEnd(GenRequest)
  \/ CodegenStart(GenRequest)
  \/ CodegenEnd(GenRequest)
  \/ ContinuationEvent(GenRequest, GenFragments)
  \/ ContinuationEnd(GenRequest)
  \/ ContinuationFail(GenRequest)

SpecGen == Init /\ [][NextGen]_vars

\* ---------------------------------------------- extract_partial_json alone

\* tokens of the enumerated argument texts
ParseAlphabet == {"{", "}", "[", "]", ",", ":", "\"a\"", "1", " "}
\* every text of at most n tokens
TextsUpTo(n) == UNION {[1..k -> ParseAlphabet] : k \in 0..n}
\* longer argument texts: an object with a comma before its closing brace,
\* an object cut inside a list, an object cut after a string that holds a
\* brace
NamedTexts ==
  { <<"{", "\"a\"", ":", "1", ",", "}">>,
    <<"{", "\"a\"", ":", " ", "1", ",", " ", "\"b\"", ":", " ", "[", "1", ",", "2">>,
    <<"{", "\"a\"", ":", "\"{\"">> }
ParseInputs == TextsUpTo(MaxTextLen) \cup NamedTexts

\* is_json_complete: json.loads(text) does not raise
IsJsonComplete(text) == Loads(text).ok

InitParse ==
  /\ InvokerInit
  /\ parser_pc = "ready"
  /\ partial_text \in ParseInputs
  /\ partial_ret = [v |-> JNone, complete |-> FALSE, parsed |-> FALSE]
  /\ RouterIdle
  /\ ResolveIdle
  /\ EventIdle

\* extract_partial_json(partial_text) returns
ExtractPartialJsonCall ==
  /\ parser_pc = "ready"
  /\ parser_pc' = "returned"
  /\ partial_ret' = ExtractPartialJson(partial_text)
  /\ UNCHANGED <<partial_text, invokerVars, routerVars, resolveVars, eventVars>>

NextParse == ExtractPartialJsonCall

\* extract_partial_json applied to one text
SpecParse == InitParse /\ [][NextParse]_vars

\* ------------------------------------------ extract_text_from_event alone

\* values an attribute or a key of an event can hold: a text, the empty
\* text, None, a number
EventValues == {JScalar("\"x\""), JScalar("\"\""), JNone, JScalar("1")}

\* the events: an object with the attribute data (absent, an object without
\* delta, an object with delta, a property that raises) and the attributes
\* delta, text and content (absent, a value, a property that raises); a
\* dict with the keys delta and text; a str; a value of no known shape
Events ==
  {[shape |-> "object", data |-> d, data_delta |-> dd, delta |-> a, text |-> b,
    content |-> c, value |-> JNone] :
      d \in {"absent", "no_delta", "raises"}, dd \in {Absent},
      a \in EventValues \cup {Absent, Raises},
      b \in EventValues \cup {Absent, Raises},
      c \in EventValues \cup {Absent, Raises}}
  \cup
  {[shape |-> "object", data |-> "delta", data_delta |-> dd, delta |-> a,
    text |-> b, content |-> c, value |-> JNone] :
      dd \in EventValues,
      a \in EventValues \cup {Absent, Raises},
      b \in EventValues \cup {Absent, Raises},
      c \in EventValues \cup {Absent, Raises}}
  \cup
  {[shape |-> "dict", data |-> "absent", data_delta |-> Absent, delta |-> a,
    text |-> b, content |-> Absent, value |-> JNone] :
      a \in EventValues \cup {Absent}, b \in EventValues \cup {Absent}}
  \cup
  {[shape |-> "str", data |-> "absent", data_delta |-> Absent, delta |-> Absent,
    text |-> Absent, content |-> Absent, value |-> v] :
      v \in {JScalar("\"x\""), JScalar("\"\"")}}
  \cup {IdleEvent}

EventReturns(v) == [raised |-> FALSE, v |-> v]
EventRaised == [raised |-> TRUE, v |-> JNone]

\* lines 42-46: the first of the attributes delta, text, content that holds
\* a str; hasattr lets an exception of a property through
RECURSIVE ProbeAttrs(_, _)
ProbeAttrs(e, attrs) ==
  IF attrs = <<>> THEN EventReturns(JScalar("\"\""))
  ELSE LET val == e[Head(attrs)] IN
       IF val = Raises THEN EventRaised
       ELSE IF val # Absent /\ val.t = "str" THEN EventReturns(val)
       ELSE ProbeAttrs(e, Tail(attrs))

\* extract_text_from_event: event.data.delta as it is when both attributes
\* exist (an exception of the probe is passed over); for a dict the key
\* delta, then the key text, when it holds a str; a str itself; then the
\* attributes; else ""
extract_text_from_event(e) ==
  IF e.shape = "object" /\ e.data = "delta" THEN EventReturns(e.data_delta)
  ELSE IF e.shape = "dict" /\ e.delta # Absent /\ e.delta.t = "str"
    THEN EventReturns(e.delta)
  ELSE IF e.shape = "dict" /\ e.text # Absent /\ e.text.t = "str"
    THEN EventReturns(e.text)
  ELSE IF e.shape = "str" THEN EventReturns(e.value)
  ELSE IF e.shape = "object" THEN ProbeAttrs(e, <<"delta", "text", "content">>)
  ELSE EventReturns(JScalar("\"\""))

InitEvent ==
  /\ InvokerInit /\ ParserIdle /\ RouterIdle /\ ResolveIdle
  /\ event_pc = "ready"
  /\ event \in Events
  /\ event_ret = JNone

\* extract_text_from_event(event) returns or raises
ExtractTextFromEventCall ==
  /\ event_pc = "ready"
  /\ LET out == extract_text_from_event(event) IN
     /\ event_pc' = IF out.raised THEN "raised" ELSE "returned"
     /\ event_ret' = out.v
  /\ UNCHANGED <<event, invokerVars, parserVars, routerVars, resolveVars>>

NextEvent == ExtractTextFromEventCall

\* extract_text_from_event applied to one event
SpecEvent == InitEvent /\ [][NextEvent]_vars

\* ------------------------------------------------- get_manager_decision

\* main_fastapi.py line 76: the estimate passed for the manager agent
ManagerEstimate == 100

\* the four task literals, in the order lines 83-90 test them
TaskKinds ==
  <<"code_generation", "error_resolution", "code_change", "code_continuation">>
\* the JSON string literal of a task literal
QuotedOf(k) ==
  CASE k = "code_generation" -> "\"code_generation\""
    [] k = "error_resolution" -> "\"error_resolution\""
    [] k = "code_change" -> "\"code_change\""
    [] k = "code_continuation" -> "\"code_continuation\""
\* the Python str k as a value
PyStr(k) == JScalar(QuotedOf(k))

\* "k in text": a token is the bare literal or the literal in quotes; no
\* literal spans two tokens of the manager outputs
Contains(text, k) ==
  \E i \in 1..Len(text) : text[i] = k \/ text[i] = QuotedOf(k)

\* lines 83-92: the first literal of TaskKinds the text contains, else
\* "code_generation"
RECURSIVE KeywordTask(_, _)
KeywordTask(task_type, i) ==
  IF i > Len(TaskKinds) THEN PyStr("code_generation")
  ELSE IF Contains(task_type, TaskKinds[i]) THEN PyStr(TaskKinds[i])
  ELSE KeywordTask(task_type, i + 1)

TaskKey == "\"task\""

\* lines 75-97 after the await: manager_result is what
\* run_agent_with_token_limit returned.  An "Error: ..." str has no
\* final_output: the outer except raises HTTPException(500).  A decoded
\* dict gives its "task" member, or "" without one, unchecked; any other
\* decoded value has no get and falls, like a text that is no JSON, to the
\* bare except and its substring tests
ManagerDecision(manager_result) ==
  IF manager_result.kind # "wrapper" THEN [kind |-> "raised", task |-> JNone]
  ELSE LET task_type == Strip(manager_result.text)
           manager_decision == Loads(task_type)
       IN [kind |-> "returned",
           task |-> IF manager_decision.ok /\ manager_decision.v.t = "obj"
                      THEN IF KeyIndex(manager_decision.v.ks, TaskKey, 1) > 0
                             THEN DictGet(manager_decision.v, TaskKey)
                             ELSE JScalar("\"\"")
                      ELSE KeywordTask(task_type, 1)]

\* text fragments of the manager agent's stream: an event without text, the
\* opening of a decision object, its value and closing brace (two known
\* kinds, an unknown string, a number), an object without "task", bare
\* words with and without a task literal, a JSON string holding one
RouterFragments ==
  { <<>>,
    <<"{", "\"task\"", ":", " ">>,
    <<"\"code_change\"", "}">>,
    <<"\"error_resolution\"", "}">>,
    <<"\"banana\"", "}">>,
    <<"1", "}">>,
    <<"{", "\"a\"", ":", "1", "}">>,
    <<"error_resolution">>,
    <<" ", "code_generation">>,
    <<"code_change", " ">>,
    <<"code_continuation">>,
    <<"hello">>,
    <<"\"error_resolution\"">> }

\* line 76: get_manager_decision calls run_agent_with_token_limit
GetManagerDecisionStart(r) ==
  /\ decision[r].kind = "none"
  /\ RunAgentStart(r, {ManagerEstimate})

\* lines 77-97: the call returned; get_manager_decision returns or raises
GetManagerDecisionEnd(r) ==
  /\ LoopFree
  /\ pc[r] = "done"
  /\ decision[r].kind = "none"
  /\ decision' = [decision EXCEPT ![r] = ManagerDecision(result[r])]
  /\ UNCHANGED <<invokerVars, parserVars, resolveVars, eventVars>>

NextRouter ==
  \/ GetManagerDecisionStart(GenRequest)
  \/ StreamEvent(GenRequest, RouterFragments)
  \/ StreamFail(GenRequest)
  \/ RunAgentEnd(GenRequest)
  \/ GetManagerDecisionEnd(GenRequest)

\* one call of get_manager_decision
SpecRouter == Init /\ [][NextRouter]_vars

\* ---------------------------------------------------- create_structure_only

\* functions.py line 138: the length of a preview
PreviewLen == 100

\* n times the character ch
RECURSIVE Rep(_, _)
Rep(ch, n) == IF n <= 0 THEN <<>> ELSE <<ch>> \o Rep(ch, n - 1)

\* PreviewLen letters a
LongRun == Rep("a", PreviewLen)

\* the characters of the string literals used as file contents; "a*100"
\* names the literal of 100 letters a, "a*100+p" the same followed by p
CharsOf(tok) ==
  CASE tok = "\"\"" -> <<>>
    [] tok = "\"x\"" -> <<"x">>
    [] tok = "\"y\"" -> <<"y">>
    [] tok = "\"fixed\"" -> <<"f", "i", "x", "e", "d">>
    [] tok = "\"a*100\"" -> LongRun
    [] tok = "\"a*100+p\"" -> LongRun \o <<"p">>
    [] tok = "\"a*100+q\"" -> LongRun \o <<"q">>

\* str(content) for a scalar content
StrOf(content) ==
  CASE content.t = "str" -> CharsOf(content.s)
    [] content.t = "num" -> <<content.s>>
    [] content.t = "null" -> <<"N", "o", "n", "e">>
    [] content.t = "true" -> <<"T", "r", "u", "e">>
    [] content.t = "false" -> <<"F", "a", "l", "s", "e">>

\* text[:n]
Take(text, n) == SubSeq(text, 1, Min(n, Len(text)))

\* file_path.split('.') for the paths of the modelled bundles
SplitDots(file_path) ==
  CASE file_path = "\"App.jsx\"" -> <<"App", "jsx">>
    [] file_path = "\"index.JS\"" -> <<"index", "JS">>
    [] file_path = "\"notes.xyz\"" -> <<"notes", "xyz">>
    [] file_path = "\"Makefile\"" -> <<"Makefile">>
    [] file_path = "\"src/components/MessageBubble.jsx\""
         -> <<"src/components/MessageBubble", "jsx">>

\* str.lower() on the parts SplitDots gives
Lower(part) ==
  CASE part = "JS" -> "js"
    [] part = "Makefile" -> "makefile"
    [] part = "App" -> "app"
    [] OTHER -> part

\* mutant of get_file_type: the extension is looked up as it is written
get_file_typeCaseSensitive(file_path) ==
  LET parts == SplitDots(file_path)
      extension == parts[Len(parts)]
  IN CASE extension = "jsx" -> "react_component"
       [] extension = "js" -> "javascript"
       [] extension = "css" -> "stylesheet"
       [] extension = "json" -> "configuration"
       [] extension = "html" -> "markup"
       [] extension = "md" -> "markdown"
       [] OTHER -> "unknown"

\* get_file_type: the type_map entry of the lowered text after the last dot
get_file_type(file_path) ==
  LET parts == SplitDots(file_path)
      extension == Lower(parts[Len(parts)])
  IN CASE extension = "jsx" -> "react_component"
       [] extension = "js" -> "javascript"
       [] extension = "css" -> "stylesheet"
       [] extension = "json" -> "configuration"
       [] extension = "html" -> "markup"
       [] extension = "md" -> "markdown"
       [] OTHER -> "unknown"

\* mutant of FileEntry: the preview is the whole content
FileEntryWholeContent(file_path, content) ==
  [path |-> file_path,
   type |-> get_file_type(file_path),
   size |-> Len(StrOf(content)),
   preview |-> IF Truthy(content) THEN StrOf(content) ELSE <<>>]

\* lines 135-143: the entry of one file in the structure
FileEntry(file_path, content) ==
  [path |-> file_path,
   type |-> get_file_type(file_path),
   size |-> Len(StrOf(content)),
   preview |-> IF Truthy(content) THEN Take(StrOf(content), PreviewLen) ELSE <<>>]

\* d.get(k, default)
GetOr(d, k, default) == IF KeyIndex(d.ks, k, 1) > 0 THEN DictGet(d, k) ELSE default

\* create_structure_only: a value that is no dict is returned as it is
\* (raw); a dict gives its project_name and framework (or the defaults) and
\* one entry per file when "files" is a dict
create_structure_only(project_data) ==
  IF project_data.t # "obj"
    THEN [raw |-> TRUE, value |-> project_data,
          project_name |-> JNone, framework |-> JNone, files |-> <<>>]
    ELSE [raw |-> FALSE, value |-> JNone,
          project_name |-> GetOr(project_data, "\"project_name\"", JScalar("\"unknown\"")),
          framework |-> GetOr(project_data, "\"framework\"", JScalar("\"React\"")),
          files |-> IF HasFileSet(project_data)
                      THEN LET f == DictGet(project_data, FilesKey) IN
                           [i \in 1..Len(f.ks) |-> FileEntry(f.ks[i], f.vs[i])]
                      ELSE <<>>]

\* -------------------------------------------------- handle_error_resolution

\* functions.py lines 205 and 255: the estimates passed for the two agents
FinderEstimate == 500
ResolverEstimate == 2000

\* the tokens that stand for the three backticks of a markdown fence, alone
\* and followed by the word json
Fence == "<fence>"
FenceJson == "<fence>json"

\* clean_ai_output: strip; a text that starts with a fence loses every
\* fence (after "```json" both kinds, after "```" the three backticks of
\* both, which leaves the word json of a later "```json"); strip again
clean_ai_output(output) ==
  LET cleaned == Strip(output) IN
  IF Len(cleaned) > 0 /\ cleaned[1] = FenceJson
    THEN Strip(SelectSeq(cleaned, LAMBDA tok : tok \notin {Fence, FenceJson}))
  ELSE IF Len(cleaned) > 0 /\ cleaned[1] = Fence
    THEN Strip([i \in 1..Len(SelectSeq(cleaned, LAMBDA tok : tok # Fence)) |->
                  LET tok == SelectSeq(cleaned, LAMBDA t : t # Fence)[i] IN
                  IF tok = FenceJson THEN "json" ELSE tok])
  ELSE cleaned

\* lines 159-168: full_project from the argument code; ok = FALSE stands for
\* json.JSONDecodeError
ParseCode(code) ==
  IF code.kind = "str" THEN Loads(code.text)
  ELSE IF code.kind = "dict" THEN [ok |-> TRUE, v |-> code.value]
  ELSE [ok |-> TRUE, v |-> JObj(<<>>, <<>>)]

\* lines 171-176 end without an exception: create_structure_only was
\* called.  The test of line 171 raises TypeError on a number or a literal,
\* and the subscript of line 171 on a list or a string that holds the key
Summarized(p) ==
  p.ok /\ HasFiles(p.v) # "raise" /\ (HasFiles(p.v) = "yes" => p.v.t = "obj")

\* lines 158-191 raise.  The except clause of line 179 builds the fallback
\* project and leaves error_description unassigned, so line 190 raises
\* NameError; line 191 raises for a full_project without get (a list, a
\* string) and for a "files" member without len
Step1Raises(p) ==
  \/ ~Summarized(p)
  \/ p.v.t # "obj"
  \/ /\ KeyIndex(p.v.ks, FilesKey, 1) > 0
     /\ DictGet(p.v, FilesKey).t \notin {"obj", "arr", "str"}

DefaultAffectedFile == "\"src/components/MessageBubble.jsx\""

\* lines 223-228: the values taken when the finder output is no JSON
FinderFallback ==
  [raised |-> FALSE,
   affected_files |-> JArr(<<JScalar(DefaultAffectedFile)>>),
   error_type |-> JScalar("\"runtime_error\"")]

SelectRaised == [raised |-> TRUE, affected_files |-> JNone, error_type |-> JNone]

\* lines 208-228: affected_files and error_type from what
\* run_agent_with_token_limit returned.  An "Error: ..." str has no
\* final_output and a decoded value that is no dict has no get: both raise
\* AttributeError, which the except clause for json.JSONDecodeError does not
\* catch
SelectAffected(finder_result) ==
  IF finder_result.kind # "wrapper" THEN SelectRaised
  ELSE LET finder_output == Loads(clean_ai_output(finder_result.text)) IN
       IF ~finder_output.ok THEN FinderFallback
       ELSE IF finder_output.v.t # "obj" THEN SelectRaised
       ELSE [raised |-> FALSE,
             affected_files |-> GetOr(finder_output.v, "\"affected_files\"", JArr(<<>>)),
             error_type |-> GetOr(finder_output.v, "\"error_type\"",
                                 JScalar("\"unknown\""))]

\* the values "for file_name in affected_files" visits: the elements of a
\* list, the keys of a dict, nothing for the empty string
IterItems(v) ==
  IF v.t = "arr" THEN v.vs
  ELSE IF v.t = "obj" THEN [i \in 1..Len(v.ks) |-> JScalar(v.ks[i])]
  ELSE <<>>
\* iterating v raises TypeError (a number or a literal); a non-empty string
\* is outside the modelled finder outputs
Iterable(v) == v.t \in {"arr", "obj"} \/ (v.t = "str" /\ v.s = "\"\"")

\* lines 233-239 for a dict of files: the requested names the dict has
RECURSIVE RehydrateFrom(_, _, _, _)
RehydrateFrom(files, items, i, acc) ==
  IF i > Len(items) THEN acc
  ELSE RehydrateFrom(
         files, items, i + 1,
         IF items[i].t = "str" /\ KeyIndex(files.ks, items[i].s, 1) > 0
           THEN DictPut(acc, items[i].s, DictGet(files, items[i].s))
           ELSE acc)

\* lines 233-239: affected_files_content.  With a name to look up,
\* full_project["files"] raises KeyError when the key is missing; a list or
\* a dict as name is unhashable; a "files" list that holds the name, or a
\* "files" string, cannot be indexed by it (strings are taken to raise)
Rehydrate(project, names) ==
  LET items == IterItems(names)
      ok == [raised |-> FALSE, content |-> JObj(<<>>, <<>>)]
      bad == [raised |-> TRUE, content |-> JObj(<<>>, <<>>)]
  IN IF ~Iterable(names) THEN bad
     ELSE IF items = <<>> THEN ok
     ELSE IF KeyIndex(project.ks, FilesKey, 1) = 0 THEN bad
     ELSE LET files == DictGet(project, FilesKey) IN
          IF files.t = "obj"
            THEN IF \E i \in 1..Len(items) : items[i].t \in {"arr", "obj"} THEN bad
                 ELSE [raised |-> FALSE,
                       content |-> RehydrateFrom(files, items, 1, JObj(<<>>, <<>>))]
          ELSE IF files.t = "arr"
            THEN IF \E i \in 1..Len(items), j \in 1..Len(files.vs) :
                      items[i] = files.vs[j]
                   THEN bad ELSE ok
          ELSE bad

\* mutant of PutAll: the file set is replaced by the fixed files
PutAllOnlyFixed(files, fixed_files, i) == fixed_files

\* lines 266-267 for a dict of files: every member of fixed_files is put
RECURSIVE PutAll(_, _, _)
PutAll(files, fixed_files, i) ==
  IF i > Len(fixed_files.ks) THEN files
  ELSE PutAll(DictPut(files, fixed_files.ks[i], fixed_files.vs[i]), fixed_files, i + 1)

ErRaised == [kind |-> "raised", value |-> JNone, text |-> NoText]

\* lines 258-276: what handle_error_resolution returns.  An "Error: ..."
\* str has no final_output, a decoded value that is no dict has no keys,
\* and a missing or non-dict "files" cannot take the fixed files: all raise;
\* a resolver output that is no JSON is returned as it is
ResolveOutcome(resolver_result, project) ==
  IF resolver_result.kind # "wrapper" THEN ErRaised
  ELSE LET resolver_output == Loads(clean_ai_output(resolver_result.text)) IN
       IF ~resolver_output.ok
         THEN [kind |-> "text", value |-> JNone, text |-> resolver_result.text]
       ELSE IF resolver_output.v.t # "obj" THEN ErRaised
       ELSE IF resolver_output.v.ks = <<>>
         THEN [kind |-> "bundle", value |-> project, text |-> NoText]
       ELSE IF ~HasFileSet(project) THEN ErRaised
       ELSE [kind |-> "bundle",
             value |-> DictPut(project, FilesKey,
                               PutAll(DictGet(project, FilesKey), resolver_output.v, 1)),
             text |-> NoText]

\* the arguments of the modelled calls
UserInputs == {"e1"}
Project(files) ==
  JObj(<<"\"project_name\"", "\"framework\"", FilesKey>>,
       <<JScalar("\"demo\""), JScalar("\"React\""), files>>)
\* file sets: two that differ only after the first 100 characters of one
\* file, one with a content of exactly 100 characters and an empty one, one
\* with the default affected file and a number as content
FileSets ==
  { JObj(<<"\"App.jsx\"", "\"notes.xyz\"">>, <<JScalar("\"a*100+p\""), JScalar("\"y\"")>>),
    JObj(<<"\"App.jsx\"", "\"notes.xyz\"">>, <<JScalar("\"a*100+q\""), JScalar("\"y\"")>>),
    JObj(<<"\"App.jsx\"", "\"index.JS\"">>, <<JScalar("\"a*100\""), JScalar("\"\"")>>),
    JObj(<<DefaultAffectedFile, "\"Makefile\"">>, <<JScalar("\"x\""), JScalar("0")>>) }
\* code: a project as dict, a dict without "files", a dict whose "files" is
\* a list or a number, a project as JSON text, a text that is no JSON, the
\* JSON text of a list, and a value that is neither str nor dict
CodeInputs ==
  {[kind |-> "dict", text |-> NoText, value |-> Project(f)] : f \in FileSets}
  \cup {[kind |-> "dict", text |-> NoText, value |-> v] :
          v \in {JObj(<<"\"project_name\"">>, <<JScalar("\"demo\"")>>),
                 JObj(<<FilesKey>>, <<JArr(<<JScalar("\"App.jsx\"")>>)>>),
                 JObj(<<FilesKey>>, <<JScalar("1")>>)}}
  \cup {[kind |-> "str", text |-> t, value |-> JNone] :
          t \in {Dumps(Project(f)) : f \in FileSets} \cup {<<"{">>, <<"[", "]">>}}
  \cup {[kind |-> "other", text |-> NoText, value |-> JNone]}

\* text fragments of the finder agent's stream: an event without text, two
\* selections (the second without error_type and with a path no modelled
\* project has together with App.jsx), the first selection inside a
\* markdown fence, a word, an opening brace, a list, a selection whose
\* affected_files is a number
FinderFragments ==
  { <<>>,
    <<"{", "\"affected_files\"", ":", "[", "\"App.jsx\"", "]", ",",
      "\"error_type\"", ":", "\"import_error\"", "}">>,
    <<"{", "\"affected_files\"", ":", "[", "\"notes.xyz\"", ",", "\"Makefile\"", "]", "}">>,
    <<FenceJson, " ", "{", "\"affected_files\"", ":", "[", "\"App.jsx\"", "]", ",",
      "\"error_type\"", ":", "\"import_error\"", "}", " ", Fence>>,
    <<"hello">>,
    <<"{">>,
    <<"[", "]">>,
    <<"{", "\"affected_files\"", ":", "1", "}">> }

\* text fragments of the resolver agent's stream: an event without text, a
\* fix of App.jsx, the same inside a fence, a fix of two other files, a
\* word, a number, an empty object
ResolverFragments ==
  { <<>>,
    <<"{", "\"App.jsx\"", ":", "\"fixed\"", "}">>,
    <<Fence, " ", "{", "\"App.jsx\"", ":", "\"fixed\"", "}", " ", Fence>>,
    <<"{", "\"index.JS\"", ":", "\"fixed\"", ",", "\"notes.xyz\"", ":", "\"fixed\"", "}">>,
    <<"hello">>,
    <<"1">>,
    <<"{", "}">> }

\* the locals of a coroutine of run_agent_with_token_limit that returned
\* are gone: request r can make its next call
Returned(r) ==
  /\ pc' = [pc EXCEPT ![r] = "idle"]
  /\ fn' = [fn EXCEPT ![r] = "none"]
  /\ est' = [est EXCEPT ![r] = 0]
  /\ input_tokens' = [input_tokens EXCEPT ![r] = 0]
  /\ full_output' = [full_output EXCEPT ![r] = NoText]
  /\ cont_output' = [cont_output EXCEPT ![r] = NoText]
  /\ nevents' = [nevents EXCEPT ![r] = 0]
  /\ result' = [result EXCEPT ![r] = NoResult]
  /\ call' = [call EXCEPT ![r] = NoCall]
  /\ UNCHANGED <<clock, tokens_used, start_time, wake_at, committed, calls>>
  /\ NoEvent

\* lines 158-201: parse code, store the original files, build the structure
\* and the finder input; or raise
ResolveParse ==
  /\ er_pc = "idle" /\ cc_pc = "idle"
  /\ LET p == ParseCode(er_args.code) IN
     /\ original_files' = IF Summarized(p) /\ HasFileSet(p.v)
                            THEN DictGet(p.v, FilesKey) ELSE original_files
     /\ stages' = IF Summarized(p) THEN Append(stages, "summarize") ELSE stages
     /\ IF Step1Raises(p)
          THEN /\ er_pc' = "raised"
               /\ er_result' = ErRaised
               /\ UNCHANGED <<full_project, finder_input>>
          ELSE /\ er_pc' = "finder"
               /\ full_project' = p.v
               /\ finder_input' =
                    [error_description |-> er_args.user_input,
                     project_structure |-> create_structure_only(p.v)]
               /\ UNCHANGED er_result
  /\ UNCHANGED <<er_args, affected_files, error_type, resolver_input, cc_pc>>
  /\ UNCHANGED <<invokerVars, parserVars, routerVars, eventVars>>

\* lines 203-207: run_agent_with_token_limit on the finder agent
ResolveFinderCall(r) == er_pc = "finder" /\ RunAgentStart(r, {FinderEstimate})

\* one event of the finder agent's stream
FinderEvent(r) == er_pc = "finder" /\ StreamEvent(r, FinderFragments)

\* lines 208-252: the finder call returned; take affected_files and
\* error_type, collect the contents of the affected files, build the
\* resolver input; or raise
ResolveSelect(r) ==
  /\ LoopFree
  /\ er_pc = "finder" /\ pc[r] = "done"
  /\ LET sel == SelectAffected(result[r])
         reh == Rehydrate(full_project, sel.affected_files)
     IN /\ affected_files' = sel.affected_files
        /\ error_type' = sel.error_type
        /\ IF sel.raised \/ reh.raised
             THEN /\ er_pc' = "raised"
                  /\ er_result' = ErRaised
                  /\ stages' = IF sel.raised THEN stages ELSE Append(stages, "select")
                  /\ UNCHANGED resolver_input
             ELSE /\ er_pc' = "resolver"
                  /\ resolver_input' =
                       [error_description |-> finder_input.error_description,
                        file_name |-> sel.affected_files,
                        affected_files |-> reh.content,
                        error_type |-> sel.error_type]
                  /\ stages' = stages \o <<"select", "rehydrate">>
                  /\ UNCHANGED er_result
  /\ Returned(r)
  /\ UNCHANGED <<er_args, full_project, finder_input, original_files, cc_pc>>
  /\ UNCHANGED <<parserVars, routerVars, eventVars>>

\* lines 252-256: run_agent_with_token_limit on the resolver agent
ResolveResolverCall(r) == er_pc = "resolver" /\ RunAgentStart(r, {ResolverEstimate})

\* one event of the resolver agent's stream
ResolverEvent(r) == er_pc = "resolver" /\ StreamEvent(r, ResolverFragments)

\* lines 258-276: the resolver call returned; put the fixed files into
\* full_project and return it, return the raw output, or raise
ResolveFinish(r) ==
  /\ LoopFree
  /\ er_pc = "resolver" /\ pc[r] = "done"
  /\ LET out == ResolveOutcome(result[r], full_project) IN
     /\ er_result' = out
     /\ er_pc' = IF out.kind = "raised" THEN "raised" ELSE "returned"
     /\ full_project' = IF out.kind = "bundle" THEN out.value ELSE full_project
     /\ stages' = IF result[r].kind = "wrapper" THEN Append(stages, "fix") ELSE stages
  /\ Returned(r)
  /\ UNCHANGED <<er_args, finder_input, affected_files, error_type, resolver_input,
                 original_files, cc_pc>>
  /\ UNCHANGED <<parserVars, routerVars, eventVars>>

\* main_fastapi.py lines 178-201: code_change_endpoint.  Without a
\* project_context it raises HTTPException(400); with one it calls
\* project_context.set_project_data, which ProjectContext does not have.
\* Both exceptions reach "except Exception" and leave as HTTPException(500)
\* before modify() and the modifier agent are reached
CodeChangeEndpoint ==
  /\ cc_pc = "idle" /\ er_pc = "idle"
  /\ cc_pc' = "raised"
  /\ UNCHANGED <<er_pc, er_args, full_project, finder_input, affected_files,
                 error_type, resolver_input, er_result, original_files, stages>>
  /\ UNCHANGED <<invokerVars, parserVars, routerVars, eventVars>>

InitResolve ==
  /\ InvokerInit /\ ParserIdle /\ RouterIdle /\ EventIdle
  /\ ResolveLocalsInit
  /\ er_args \in [user_input : UserInputs, code : CodeInputs]

NextResolve ==
  \/ ResolveParse
  \/ ResolveFinderCall(GenRequest)
  \/ FinderEvent(GenRequest)
  \/ ResolveSelect(GenRequest)
  \/ ResolveResolverCall(GenRequest)
  \/ ResolverEvent(GenRequest)
  \/ ResolveFinish(GenRequest)
  \/ Wake(GenRequest)
  \/ StreamFail(GenRequest)
  \/ RunAgentEnd(GenRequest)
  \/ CodeChangeEndpoint

\* one request on the error-resolution path or on the code-change path
SpecResolve == InitResolve /\ [][NextResolve]_vars

\* ================================================================ claims

\* a step in which request r enters run_agent_with_token_limit
Reserves(r) == pc[r] = "idle" /\ pc'[r] # "idle"
\* a step in which add_tokens is called, and the tokens it is called with
Commits == committed' > committed
CommitAmount == committed' - committed

\* C1: tokens_used never exceeds max_tokens_per_minute, and an add_tokens
\* that would exceed it leaves the counter at max_tokens_per_minute
C1_UsedNeverExceedsCapacity ==
  /\ [](tokens_used >= 0 /\ tokens_used <= max_tokens_per_minute)
  /\ [][(Commits /\ tokens_used + CommitAmount > max_tokens_per_minute)
          => tokens_used' = max_tokens_per_minute]_vars

C1_Witness ==
  committed > max_tokens_per_minute /\ tokens_used = max_tokens_per_minute

\* C2: a check_and_wait called 60 s or more after start_time sets
\* tokens_used to 0 and start_time to the current time and does not sleep,
\* whatever tokens_used and the estimate are
C2_ExpiredWindowResets ==
  [][\A r \in Requests :
       (Reserves(r) /\ clock - start_time >= WindowSeconds)
         => /\ tokens_used' = 0
            /\ start_time' = clock
            /\ clock' = clock
            /\ pc'[r] # "sleeping"]_vars

C2_Witness ==
  \E r \in Requests :
    /\ call[r].path = "reset" /\ pc[r] = "stream"
    /\ est[r] >= token_limit_threshold
    /\ tokens_used = 0 /\ start_time = clock

\* C3: a check_and_wait called less than 60 s after start_time sleeps for
\* 60 - elapsed seconds when tokens_used + estimate >= threshold and then
\* resets the window to the time after the sleep; below the threshold it
\* returns at once and leaves tokens_used and start_time alone
C3_SoftLimitWaitsRemainder ==
  [][\A r \in Requests :
       /\ (Reserves(r) /\ clock - start_time < WindowSeconds)
            => /\ tokens_used' = tokens_used
               /\ start_time' = start_time
               /\ clock' = clock
               /\ IF tokens_used + est'[r] >= token_limit_threshold
                    THEN /\ pc'[r] = "sleeping"
                         /\ wake_at'[r] = clock + (WindowSeconds - (clock - start_time))
                    ELSE pc'[r] # "sleeping"
       /\ (pc[r] = "sleeping" /\ pc'[r] # "sleeping")
            => /\ clock' >= wake_at[r]
               /\ tokens_used' = 0
               /\ start_time' = clock']_vars

C3_Witness ==
  \E r \in Requests :
    /\ call[r].path = "wait" /\ pc[r] = "stream"
    /\ tokens_used = 0 /\ start_time = clock /\ clock > WindowSeconds

\* C4: check_and_wait never rejects and always returns: a sleeping call
\* resumes, and one call sleeps at most once, also for an estimate above the
\* capacity
C4_ReserveReturns ==
  /\ \A r \in Requests : (pc[r] = "sleeping") ~> (pc[r] \in {"stream", "done"})
  /\ [](\A r \in Requests : call[r].waits <= 1)

C4_Witness ==
  \E r \in Requests :
    /\ call[r].path = "wait" /\ call[r].waits = 1
    /\ est[r] > max_tokens_per_minute
    /\ pc[r] = "stream"

\* C5 (as claimed): tokens passed to add_tokens 60 s or more after
\* start_time are not added on top of the tokens counted before
C5_LateCommitStartsNewWindow ==
  [][(Commits /\ clock - start_time >= WindowSeconds)
       => tokens_used' <= CommitAmount]_vars

\* C6 (as claimed): while one request sleeps in check_and_wait, another
\* request that has a stream open can take its next step
C6_SleepBlocksOnlyCaller ==
  \A r, q \in Requests :
    (r # q /\ pc[r] = "sleeping" /\ pc[q] = "stream")
      => ENABLED (StreamEvent(q, Fragments) \/ RunAgentEnd(q) \/ StreamFail(q))

\* C7: the steps of concurrent requests on tokens_used and start_time are
\* serialized: every add_tokens since the last reset is reflected in
\* tokens_used (up to the clamp), and the window is reset only when 60 s
\* have passed since start_time, so one expiry resets it once
C7_SerializedBudget ==
  [][/\ tokens_used' = Min(committed', max_tokens_per_minute)
     /\ (start_time' # start_time)
          => /\ clock' - start_time >= WindowSeconds
             /\ start_time' = clock'
             /\ tokens_used' = 0]_vars

C7_Witness ==
  /\ \A r \in Requests :
       pc[r] = "done" /\ result[r].kind = "wrapper" /\ call[r].path = "pass"
  /\ committed >= 2 * 3000
  /\ tokens_used = committed

\* str.startswith
StartsWith(text, prefix) ==
  Len(text) >= Len(prefix) /\ SubSeq(text, 1, Len(prefix)) = prefix

\* C8 (as claimed): every model stream an invoker read to its end was
\* followed by an add_tokens for it
C8_EveryCallCommits ==
  \A r \in Requests : pc[r] = "done" => call[r].commits = call[r].streams

C10_ContinuationIffBestEffort ==
  \A r \in Requests :
    (pc[r] = "done" /\ fn[r] = "codegen_with_continuation" /\ call[r].fail # "primary")
      => LET e == ExtractPartialJson(full_output[r]) IN
         /\ call[r].conts = 1 <=> (~e.complete /\ e.parsed)
         /\ e.complete => (call[r].conts = 0 /\ result[r].text = full_output[r])


\* stream_codegen_with_continuation returned after a continuation that ran
\* to its end
ContinuationReturned(r) ==
  /\ pc[r] = "done" /\ fn[r] = "codegen_with_continuation"
  /\ call[r].conts = 1 /\ call[r].fail # "continuation"

\* C11: when the repaired original and the continuation are both objects
\* with a file set, the returned text is the original object with its file
\* set overlaid by the continuation's: every path of either set is there, a
\* path of the continuation carries the continuation's content, a path only
\* in the original keeps its content, and the other members of the original
\* are unchanged
C11_MergeOverlaysFiles ==
  \A r \in Requests :
    LET partial_json == ExtractPartialJson(full_output[r]).v
        continuation_json == ExtractPartialJson(cont_output[r]).v
        out == Loads(result[r].text)
    IN (ContinuationReturned(r) /\ HasFileSet(partial_json)
          /\ HasFileSet(continuation_json))
         => /\ out.ok /\ HasFileSet(out.v)
            /\ out.v.ks = partial_json.ks
            /\ \A i \in 1..Len(out.v.ks) :
                 out.v.ks[i] # FilesKey => out.v.vs[i] = partial_json.vs[i]
            /\ LET merged == DictGet(out.v, FilesKey)
                   original == DictGet(partial_json, FilesKey)
                   newer == DictGet(continuation_json, FilesKey)
               IN /\ Keys(merged) = Keys(original) \cup Keys(newer)
                  /\ \A k \in Keys(newer) : DictGet(merged, k) = DictGet(newer, k)
                  /\ \A k \in Keys(original) \ Keys(newer) :
                       DictGet(merged, k) = DictGet(original, k)

\* the original {"files":{"a":"x" with the continuation
\* {"files":{"b":"y","a":1}} gave {"files":{"a":1,"b":"y"}}
C11_Witness ==
  \E r \in Requests :
    /\ ContinuationReturned(r)
    /\ full_output[r] = <<"{", "\"files\"", ":", "{", "\"a\"", ":", "\"x\"">>
    /\ Loads(cont_output[r]).ok
    /\ Loads(cont_output[r]).v =
         JObj(<<FilesKey>>, <<JObj(<<"\"b\"", "\"a\"">>,
                                   <<JScalar("\"y\""), JScalar("1")>>)>>)
    /\ Loads(result[r].text).v =
         JObj(<<FilesKey>>, <<JObj(<<"\"a\"", "\"b\"">>,
                                   <<JScalar("1"), JScalar("\"y\"")>>)>>)

\* C12 (as claimed): when the continuation's output cannot be parsed, or
\* parses to a value without a file set, stream_codegen_with_continuation
\* returns the continuation's raw text
C12_FailedMergeReturnsContinuation ==
  \A r \in Requests :
    LET c == ExtractPartialJson(cont_output[r]) IN
    (ContinuationReturned(r) /\ (~c.parsed \/ ~HasFileSet(c.v)))
      => result[r].kind = "str" /\ result[r].text = cont_output[r]

\* C13: one call of stream_codegen_with_continuation calls the continuation
\* at most once, and returns after it also when the continuation's own
\* output is not complete JSON
C13_AtMostOneContinuation ==
  \A r \in Requests :
    /\ call[r].conts <= 1
    /\ pc[r] = "continuation" => call[r].conts = 1
    /\ (pc[r] = "done" /\ fn[r] = "codegen_with_continuation")
         => call[r].streams <= 2

\* the call returned after one continuation whose output was cut short
C13_Witness ==
  \E r \in Requests :
    /\ ContinuationReturned(r)
    /\ call[r].streams = 2
    /\ cont_output[r] # NoText
    /\ ~ExtractPartialJson(cont_output[r]).complete
    /\ Truthy(ExtractPartialJson(cont_output[r]).v)

\* C14: extract_partial_json returns complete = True exactly when its
\* argument is valid JSON, and then the value is the decoded argument; for
\* every other argument the flag is False, whether the repair gave a value
\* or not
C14_CompleteIffValidJson ==
  parser_pc = "returned"
    => /\ partial_ret.complete <=> IsJsonComplete(partial_text)
       /\ partial_ret.complete
            => partial_ret.parsed /\ partial_ret.v = Loads(partial_text).v
       /\ ~IsJsonComplete(partial_text)
            => /\ ~partial_ret.complete
               /\ partial_ret.parsed => partial_ret.v = Loads(RepairText(partial_text)).v
               /\ ~partial_ret.parsed => partial_ret.v = JNone

\* a text that is not valid JSON was repaired and is flagged incomplete
C14_Witness ==
  /\ parser_pc = "returned"
  /\ partial_text = <<"{", "\"a\"", ":", "1">>
  /\ ~partial_ret.complete
  /\ partial_ret.v = JObj(<<"\"a\"">>, <<JScalar("1")>>)

\* C15 (as claimed): for the text {"a":1,} extract_partial_json drops the
\* comma and returns ({"a":1}, False)
C15_TrailingCommaRepaired ==
  (parser_pc = "returned"
     /\ partial_text = <<"{", "\"a\"", ":", "1", ",", "}">>)
    => /\ partial_ret.v = JObj(<<"\"a\"">>, <<JScalar("1")>>)
       /\ ~partial_ret.complete

\* C16 (as claimed): get_manager_decision returns one of the four task
\* kinds for every output of the manager agent
C16_DecisionInClosedSet ==
  \A r \in Requests :
    decision[r].kind = "returned"
      => decision[r].task \in {PyStr(TaskKinds[i]) : i \in 1..Len(TaskKinds)}

\* C17 (as claimed): for a manager output that is not valid JSON,
\* get_manager_decision returns error_resolution whenever the output
\* contains "error_resolution", and code_generation when it contains none
\* of the four literals
C17_KeywordAnywhere ==
  \A r \in Requests :
    (decision[r].kind # "none" /\ result[r].kind = "wrapper"
       /\ ~Loads(Strip(result[r].text)).ok)
      => /\ Contains(result[r].text, "error_resolution")
              => decision[r] = [kind |-> "returned", task |-> PyStr("error_resolution")]
         /\ (\A i \in 1..Len(TaskKinds) : ~Contains(result[r].text, TaskKinds[i]))
              => decision[r] = [kind |-> "returned", task |-> PyStr("code_generation")]

\* full_project and the finder input for every modelled code
ParsedCode == [c \in CodeInputs |-> ParseCode(c)]
StructureOf == [c \in CodeInputs |-> create_structure_only(ParsedCode[c].v)]

\* the project handle_error_resolution was called with
GivenProject == ParsedCode[er_args.code].v

\* two contents that differ at most after their first PreviewLen characters
AgreeUpToPreview(c, d) ==
  /\ c.t = d.t
  /\ Len(StrOf(c)) = Len(StrOf(d))
  /\ Take(StrOf(c), PreviewLen) = Take(StrOf(d), PreviewLen)

\* two projects with the same members except for the contents of their
\* files, which agree up to the preview
SameSummary(a, b) ==
  /\ HasFileSet(a) /\ HasFileSet(b)
  /\ a.ks = b.ks
  /\ \A i \in 1..Len(a.ks) : a.ks[i] # FilesKey => a.vs[i] = b.vs[i]
  /\ LET fa == DictGet(a, FilesKey)
         fb == DictGet(b, FilesKey)
     IN /\ fa.ks = fb.ks
        /\ \A i \in 1..Len(fa.ks) : AgreeUpToPreview(fa.vs[i], fb.vs[i])

\* C18: the input sent to the finder agent holds, for every file, at most
\* the first 100 characters of its content, so a project that differs from
\* the given one only after the first 100 characters of its files gives the
\* same finder input; the resolver input holds full contents of files the
\* finder selected, and of no other file
C18_FinderSeesOnlySummary ==
  er_pc \in {"finder", "resolver", "returned"}
    => LET structure == finder_input.project_structure IN
       /\ ~structure.raw
       /\ \A i \in 1..Len(structure.files) :
            LET e == structure.files[i] IN
            /\ Len(e.preview) <= PreviewLen
            /\ e.preview \in {<<>>, Take(StrOf(DictGet(DictGet(GivenProject, FilesKey),
                                                       e.path)), PreviewLen)}
       /\ \A twin \in CodeInputs :
            (ParsedCode[twin].ok /\ SameSummary(GivenProject, ParsedCode[twin].v))
              => finder_input = [error_description |-> er_args.user_input,
                                 project_structure |-> StructureOf[twin]]
       /\ er_pc \in {"resolver", "returned"}
            => \A k \in Keys(resolver_input.affected_files) :
                 /\ \E i \in 1..Len(IterItems(affected_files)) :
                      IterItems(affected_files)[i] = JScalar(k)
                 /\ k \in Keys(DictGet(GivenProject, FilesKey))
                 /\ DictGet(resolver_input.affected_files, k)
                      = DictGet(DictGet(GivenProject, FilesKey), k)

\* a project whose App.jsx has 101 characters: the finder got the first
\* 100, the resolver got all of them after the finder selected App.jsx
C18_Witness ==
  /\ er_pc = "resolver"
  /\ HasFileSet(GivenProject)
  /\ DictGet(GivenProject, FilesKey).ks[1] = "\"App.jsx\""
  /\ DictGet(GivenProject, FilesKey).vs[1] = JScalar("\"a*100+p\"")
  /\ finder_input.project_structure.files[1].size = PreviewLen + 1
  /\ finder_input.project_structure.files[1].preview = LongRun
  /\ resolver_input.affected_files =
       JObj(<<"\"App.jsx\"">>, <<JScalar("\"a*100+p\"")>>)

FourStages == <<"summarize", "select", "rehydrate", "fix">>

\* C19 (as claimed): on the error-resolution path and on the code-change
\* path the stages summarize, select, rehydrate, fix run in this order: the
\* stages finished so far are always the first ones of the four, a request
\* handle_error_resolution has returned from or code_change_endpoint is done
\* with has finished all four, and the resolver agent is called only after
\* the selection
C19_FourStagesInOrder ==
  /\ \E n \in 0..Len(FourStages) : stages = SubSeq(FourStages, 1, n)
  /\ (er_pc = "returned" \/ cc_pc # "idle") => stages = FourStages
  /\ (er_pc = "resolver" /\ pc[GenRequest] # "idle")
       => \E i \in 1..Len(stages) : stages[i] = "select"

\* C20 (as claimed): when the finder agent's output is no JSON, the
\* affected files are the one fixed default file, the error type is
\* "unknown", and handle_error_resolution goes on to the resolver call
C20_FinderFallbackUnknown ==
  [][\A r \in Requests :
       (er_pc = "finder" /\ er_pc' # "finder" /\ result[r].kind = "wrapper"
          /\ ~Loads(clean_ai_output(result[r].text)).ok)
         => /\ affected_files' = JArr(<<JScalar(DefaultAffectedFile)>>)
            /\ error_type' = JScalar("\"unknown\"")
            /\ er_pc' = "resolver"]_vars

\* a list of paths, as the finder agent is asked to give
IsPathList(v) == v.t = "arr" /\ \A i \in 1..Len(v.vs) : v.vs[i].t = "str"

\* the file set of a bundle, empty for a bundle without one
FileSetOf(project) ==
  IF HasFileSet(project) THEN DictGet(project, FilesKey) ELSE JObj(<<>>, <<>>)

\* C21 (as claimed): for every bundle, also one without a file set or the
\* empty one, and every list of requested paths, the step that collects the
\* contents does not raise: it goes on to the resolver call with exactly the
\* contents of the requested paths the bundle has
C21_RehydrateTotal ==
  [][(er_pc = "finder" /\ er_pc' # "finder" /\ IsPathList(affected_files'))
       => /\ er_pc' = "resolver"
          /\ LET got == resolver_input'.affected_files
                 files == FileSetOf(full_project)
             IN /\ Keys(got) = {affected_files'.vs[i].s :
                                  i \in 1..Len(affected_files'.vs)} \cap Keys(files)
                /\ \A k \in Keys(got) : DictGet(got, k) = DictGet(files, k)]_vars

\* lines 183-187: the project the except clause of step 1 builds
FallbackProject ==
  JObj(<<"\"project_name\"", "\"framework\"", FilesKey>>,
       <<JScalar("\"error-project\""), JScalar("\"React\""), JObj(<<>>, <<>>)>>)

\* C22 (as claimed): when code is a string that is not valid JSON,
\* handle_error_resolution does not raise: it takes the fallback project
\* with an empty file set and goes on to the finder call
C22_BadCodeFallsBack ==
  [][(er_pc = "idle" /\ er_pc' # "idle" /\ er_args.code.kind = "str"
        /\ ~Loads(er_args.code.text).ok)
       => /\ er_pc' = "finder"
          /\ full_project' = FallbackProject]_vars

\* C23 (as claimed): when run_agent_with_token_limit returns its "Error: ..."
\* text, the caller does not raise: handle_error_resolution takes the finder
\* fallback, or returns the resolver's text, and get_manager_decision returns
\* a task
C23_MarkerIsDegrade ==
  /\ [][\A r \in Requests :
          (er_pc \in {"finder", "resolver"} /\ er_pc' # er_pc
             /\ result[r].kind = "str" /\ HasFileSet(full_project))
            => /\ er_pc' # "raised"
               /\ er_pc = "finder"
                    => /\ affected_files' = FinderFallback.affected_files
                       /\ error_type' = FinderFallback.error_type
               /\ er_pc = "resolver"
                    => er_result' = [kind |-> "text", value |-> JNone,
                                     text |-> result[r].text]]_vars
  /\ [](\A r \in Requests :
          (decision[r].kind # "none" /\ result[r].kind = "str")
            => decision[r].kind = "returned")

\* C24: when handle_error_resolution returns a bundle, every path of the
\* file set of the project it was called with is in the returned file set,
\* whatever the finder and the resolver agent gave
C24_NoFileDeleted ==
  (er_pc = "returned" /\ er_result.kind = "bundle")
    => /\ Keys(FileSetOf(GivenProject)) \subseteq Keys(FileSetOf(er_result.value))
       /\ HasFileSet(GivenProject) => HasFileSet(er_result.value)

\* the resolver fixed notes.xyz and added index.JS: App.jsx is still there
\* with its content
C24_Witness ==
  /\ er_pc = "returned" /\ er_result.kind = "bundle"
  /\ Keys(FileSetOf(GivenProject)) = {"\"App.jsx\"", "\"notes.xyz\""}
  /\ FileSetOf(er_result.value) =
       JObj(<<"\"App.jsx\"", "\"notes.xyz\"", "\"index.JS\"">>,
            <<JScalar("\"a*100+p\""), JScalar("\"fixed\""), JScalar("\"fixed\"")>>)

\* the type the extension table gives the modelled paths: .jsx and .JS are
\* in the table, .xyz and a name without extension are not
ClaimedType(file_path) ==
  CASE file_path \in {"\"App.jsx\"", "\"src/components/MessageBubble.jsx\""}
         -> "react_component"
    [] file_path = "\"index.JS\"" -> "javascript"
    [] file_path \in {"\"notes.xyz\"", "\"Makefile\""} -> "unknown"

\* C25: the structure create_structure_only builds has one entry per file
\* of the project, in the project's order and under the project's paths;
\* the entry of a file with a string content has the length of the content
\* as size, its first 100 characters (all of them when there are fewer) as
\* preview, and the type of the extension table, looked up without regard
\* to case
C25_SummaryEntries ==
  (er_pc \in {"finder", "resolver", "returned"} /\ HasFileSet(GivenProject))
    => LET entries == finder_input.project_structure.files
           files == DictGet(GivenProject, FilesKey)
       IN /\ Len(entries) = Len(files.ks)
          /\ \A i \in 1..Len(entries) :
               /\ entries[i].path = files.ks[i]
               /\ entries[i].type = ClaimedType(files.ks[i])
               /\ files.vs[i].t = "str"
                    => LET chars == CharsOf(files.vs[i].s) IN
                       /\ entries[i].size = Len(chars)
                       /\ entries[i].preview =
                            IF Len(chars) <= 100 THEN chars ELSE SubSeq(chars, 1, 100)

\* a project with App.jsx of exactly 100 characters and an empty index.JS
C25_Witness ==
  /\ er_pc = "finder"
  /\ finder_input.project_structure.files =
       << [path |-> "\"App.jsx\"", type |-> "react_component",
           size |-> 100, preview |-> LongRun],
          [path |-> "\"index.JS\"", type |-> "javascript",
           size |-> 0, preview |-> <<>>] >>

\* C26: run_agent_with_token_limit opens its stream only when check_and_wait
\* has returned (at once, because the window had expired or the estimate
\* fitted below the threshold, or after its sleep); add_tokens is called
\* once, when the stream has been read to its end, with the tokens of the
\* input plus the tokens of the accumulated output; a call whose stream
\* raised calls no add_tokens, and the failing step leaves tokens_used alone
C26_ReserveOpenCommit ==
  /\ [][\A r \in Requests :
          /\ (pc'[r] = "stream" /\ pc[r] # "stream")
               => \/ pc[r] = "sleeping"
                  \/ /\ pc[r] = "idle"
                     /\ \/ clock - start_time >= WindowSeconds
                        \/ tokens_used + est'[r] < token_limit_threshold
          /\ (call'[r].commits # call[r].commits /\ pc[r] # "done")
               => /\ pc[r] = "stream" /\ pc'[r] = "done"
                  /\ call[r].commits = 0 /\ call'[r].commits = 1
                  /\ call'[r].streams = 1
                  /\ result'[r] = [kind |-> "wrapper", text |-> full_output[r]]
                  /\ committed' - committed - input_tokens[r]
                       \in CountTokens(full_output[r])
          /\ (pc[r] = "stream" /\ pc'[r] = "done" /\ result'[r].kind = "str")
               => /\ tokens_used' = tokens_used
                  /\ committed' = committed]_vars
  /\ [](\A r \in Requests :
          /\ pc[r] \in {"sleeping", "stream"} => call[r].commits = 0
          /\ (pc[r] = "done" /\ result[r].kind = "wrapper")
               => call[r].commits = 1 /\ call[r].streams = 1
          /\ (pc[r] = "done" /\ result[r].kind = "str")
               => call[r].commits = 0 /\ call[r].fail = "primary")

\* a call that slept in check_and_wait, then read its stream to the end and
\* added its tokens
C26_Witness ==
  \E r \in Requests :
    /\ pc[r] = "done" /\ result[r].kind = "wrapper" /\ result[r].text # NoText
    /\ call[r].path = "wait" /\ call[r].commits = 1
    /\ committed >= input_tokens[r] + 3000
    /\ tokens_used = committed

\* the concatenation of a sequence of texts
RECURSIVE Flat(_)
Flat(pieces) == IF pieces = <<>> THEN <<>> ELSE Head(pieces) \o Flat(Tail(pieces))

\* the non-empty members of a sequence of texts, in order
NonEmptyOf(pieces) == SelectSeq(pieces, LAMBDA piece : piece # NoText)

\* C27: while a stream is read, the accumulated text is the concatenation
\* of the pieces of its events in the order the stream delivered them, and
\* the pieces printed are the non-empty ones of them, in that order, each
\* once; the text an invoker returns when its stream has ended is that
\* concatenation (for stream_codegen_with_continuation when no continuation
\* follows; the continuation's own text is the concatenation of its pieces)
C27_AccumulatorInOrder ==
  /\ [](\A r \in Requests :
          /\ forwarded[r] = NonEmptyOf(emitted[r])
          /\ Len(emitted[r]) <= nevents[r]
          /\ pc[r] = "stream"
               => full_output[r] = Flat(emitted[r]) /\ Len(emitted[r]) = nevents[r]
          /\ pc[r] = "continuation"
               => cont_output[r] = Flat(emitted[r]) /\ Len(emitted[r]) = nevents[r])
  /\ [][\A r \in Requests :
          /\ (pc[r] = "stream" /\ pc'[r] = "done" /\ call'[r].fail # "primary"
                /\ call'[r].conts = 0)
               => result'[r].text = Flat(emitted[r])
          /\ (pc[r] = "continuation" /\ pc'[r] = "done"
                /\ call'[r].fail # "continuation")
               => cont_output'[r] = Flat(emitted[r])
          /\ (pc[r] \in {"stream", "continuation"} /\ pc'[r] = pc[r])
               => /\ Len(emitted'[r]) = Len(emitted[r]) + 1
                  /\ SubSeq(emitted'[r], 1, Len(emitted[r])) = emitted[r]
                  /\ SubSeq(forwarded'[r], 1, Len(forwarded[r])) = forwarded[r]]_vars

\* a stream delivered the opening of an object and then its closing braces:
\* the text is the two pieces in this order
C27_Witness ==
  \E r \in Requests :
    /\ pc[r] = "stream"
    /\ emitted[r] = << <<"{", "\"files\"", ":", "{", "\"a\"", ":", "\"x\"">>,
                       <<"}", "}">> >>
    /\ forwarded[r] = emitted[r]
    /\ full_output[r] =
         <<"{", "\"files\"", ":", "{", "\"a\"", ":", "\"x\"", "}", "}">>

\* C28: the continuation stream is opened only in the step that ends the
\* primary stream of stream_codegen_with_continuation, after the accumulated
\* text was found to be incomplete JSON with a truthy repaired value; while
\* the primary stream is read nothing of a continuation exists, and while
\* the continuation stream is read the primary text no longer changes
C28_ContinuationAfterPrimary ==
  /\ [](\A r \in Requests :
          /\ pc[r] = "stream" => cont_output[r] = NoText /\ call[r].conts = 0
          /\ pc[r] = "continuation"
               => /\ fn[r] = "codegen_with_continuation"
                  /\ call[r].streams = 1 /\ call[r].conts = 1
                  /\ ~ExtractPartialJson(full_output[r]).complete
                  /\ Truthy(ExtractPartialJson(full_output[r]).v))
  /\ [][\A r \in Requests :
          /\ (pc'[r] = "continuation" /\ pc[r] # "continuation")
               => /\ pc[r] = "stream"
                  /\ call[r].streams = 0 /\ call'[r].streams = 1
                  /\ cont_output'[r] = NoText /\ emitted'[r] = <<>>
                  /\ full_output'[r] = full_output[r]
          /\ pc[r] = "continuation" => full_output'[r] = full_output[r]]_vars

\* the primary stream ended with an object cut short and the continuation
\* stream, opened after it, has delivered a piece
C28_Witness ==
  \E r \in Requests :
    /\ pc[r] = "continuation"
    /\ full_output[r] = <<"{", "\"files\"", ":", "{", "\"a\"", ":", "\"x\"">>
    /\ call[r].streams = 1
    /\ nevents[r] = 1 /\ cont_output[r] = <<"}", "}">>

\* the claimed repair, step by step: the text between the first and the
\* last token that is no whitespace
Trimmed(text) ==
  LET solid == {i \in 1..Len(text) : text[i] # " "} IN
  IF solid = {} THEN <<>>
  ELSE SubSeq(text, CHOOSE i \in solid : \A j \in solid : i <= j,
                    CHOOSE i \in solid : \A j \in solid : i >= j)
\* the characters ch of a text, those inside a string literal included
PlainCount(text, ch) ==
  Cardinality({i \in 1..Len(text) : text[i] = ch})
    + (IF ch = "{" THEN Cardinality({i \in 1..Len(text) : text[i] = "\"{\""}) ELSE 0)
\* one closer per unmatched opener
Unmatched(text, opener, closer) ==
  LET n == PlainCount(text, opener) - PlainCount(text, closer) IN
  [i \in 1..(IF n > 0 THEN n ELSE 0) |-> closer]
ClaimedRepair(text) ==
  LET t == Trimmed(text)
      u == IF t # <<>> /\ t[Len(t)] = "," THEN SubSeq(t, 1, Len(t) - 1) ELSE t
  IN u \o Unmatched(u, "[", "]") \o Unmatched(u, "{", "}")

\* C29: for a text that is not valid JSON, extract_partial_json parses the
\* text trimmed of whitespace, without one trailing comma, followed by one
\* "]" per unmatched "[" and then one "}" per unmatched "{", the characters
\* counted wherever they stand: it returns (the value, False) when that
\* text parses and (None, False) when it does not
C29_RepairClosesBracketsThenBraces ==
  (parser_pc = "returned" /\ ~IsJsonComplete(partial_text))
    => LET closed == Loads(ClaimedRepair(partial_text)) IN
       /\ ~partial_ret.complete
       /\ closed.ok => partial_ret.parsed /\ partial_ret.v = closed.v
       /\ ~closed.ok => ~partial_ret.parsed /\ partial_ret.v = JNone

\* the text {"a": 1, "b": [1,2 gave ({"a":1,"b":[1,2]}, False)
C29_Witness ==
  /\ parser_pc = "returned"
  /\ partial_text =
       <<"{", "\"a\"", ":", " ", "1", ",", " ", "\"b\"", ":", " ", "[", "1", ",", "2">>
  /\ ~partial_ret.complete
  /\ partial_ret.v =
       JObj(<<"\"a\"", "\"b\"">>,
            <<JScalar("1"), JArr(<<JScalar("1"), JScalar("2")>>)>>)

\* a str
IsStr(v) == v # Absent /\ v # Raises /\ v.t = "str"

\* the first str in the claimed order: event.data.delta, the keys delta and
\* text of a dict, the event itself, the attributes delta, text, content;
\* "" when there is none
ClaimedText(e) ==
  LET tries ==
        (IF e.shape = "object" /\ e.data = "delta" THEN <<e.data_delta>> ELSE <<>>)
        \o (IF e.shape = "dict" THEN <<e.delta, e.text>> ELSE <<>>)
        \o (IF e.shape = "str" THEN <<e.value>> ELSE <<>>)
        \o (IF e.shape = "object" THEN <<e.delta, e.text, e.content>> ELSE <<>>)
      hits == SelectSeq(tries, IsStr)
  IN IF hits = <<>> THEN JScalar("\"\"") ELSE Head(hits)

\* C30 (as claimed): extract_text_from_event returns for every event, and
\* what it returns is a str: the first one in the claimed order, or "" when
\* there is none, also when event.data.delta exists and is no str
C30_AlwaysAString ==
  event_pc # "ready"
    => /\ event_pc = "returned"
       /\ event_ret.t = "str"
       /\ event_ret = ClaimedText(event)

\* C31: in the state in which check_and_wait has just returned (at once or
\* after its sleep) the counter is 0 or the counter plus the estimate of the
\* call is below the threshold; no step of check_and_wait makes the counter
\* larger; the step that calls add_tokens leaves the start of the window
\* alone
C31_ReservePostCondition ==
  [][\A r \in Requests :
       LET entered == pc[r] = "idle" /\ fn'[r] = "run_agent"
           woke == pc[r] = "sleeping" /\ pc'[r] # "sleeping"
       IN
       /\ ((entered /\ pc'[r] # "sleeping") \/ woke)
            => \/ tokens_used' = 0
               \/ tokens_used' + est'[r] < token_limit_threshold
       /\ (entered \/ pc[r] = "sleeping")
            => tokens_used' <= tokens_used
       /\ call'[r].commits > call[r].commits
            => start_time' = start_time]_vars

\* check_and_wait returned at once to a call whose estimate fits under the
\* threshold on top of the tokens an earlier call added in the same window
C31_Witness ==
  \E r \in Requests :
    /\ pc[r] = "stream" /\ fn[r] = "run_agent" /\ nevents[r] = 0
    /\ call[r].path = "pass"
    /\ tokens_used > 0
    /\ tokens_used + est[r] < token_limit_threshold
    /\ tokens_used = committed

\* C32 (as claimed): when the continuation was run and its output parses to
\* an object with a file set, the text stream_codegen_with_continuation
\* returns is an object with a file set that holds every path of the
\* continuation's file set, whatever the repaired original is
C32_ContinuationFilesKept ==
  \A r \in Requests :
    LET continuation_json == ExtractPartialJson(cont_output[r]).v
        out == Loads(result[r].text)
    IN (ContinuationReturned(r) /\ call[r].fail # "continuation"
          /\ HasFileSet(continuation_json))
         => /\ out.ok /\ HasFileSet(out.v)
            /\ Keys(DictGet(continuation_json, FilesKey))
                 \subseteq Keys(DictGet(out.v, FilesKey))

\* the paths the selection step chose
SelectedPaths ==
  {IterItems(affected_files)[i].s : i \in 1..Len(IterItems(affected_files))}

\* C33 (as claimed): in the bundle handle_error_resolution returns, every
\* path whose content is not the one of the project it was called with, and
\* every path that project did not have, is one of the affected files the
\* selection step chose; when the resolver's output is no valid JSON the
\* file set of the project is the one it was called with
C33_OnlySelectedFilesChange ==
  /\ (er_pc = "returned" /\ er_result.kind = "bundle")
       => LET given == FileSetOf(GivenProject)
              returned == FileSetOf(er_result.value)
          IN \A k \in Keys(returned) :
               (k \notin Keys(given) \/ DictGet(returned, k) # DictGet(given, k))
                 => k \in SelectedPaths
  /\ (er_pc = "returned" /\ er_result.kind = "text")
       => FileSetOf(full_project) = FileSetOf(GivenProject)

====
